---------------------------- MODULE Spec2Model ----------------------------
(***************************************************************************)
(* A model of the NeMo spiking-neural-network simulator: the CPU backend   *)
(* (nemo::cpu::Simulation), the generic ConnectivityMatrix it delivers     *)
(* spikes through, and the host side of the CUDA ConnectivityMatrix that   *)
(* accumulates synapses during construction.                               *)
(*                                                                         *)
(* Representation.                                                         *)
(*  - A uint64_t word is the set of its set bit positions, a subset of     *)
(*    0 .. WordBits-1.                                                     *)
(*  - fix_t is a signed 32-bit integer; `+=` on it wraps modulo 2^32.      *)
(*  - A float weight is an integer count of 2^-WeightFracBits units, so    *)
(*    that the conversion to fixed point can lose precision.               *)
(*  - The membrane state u, v is an integer count of 1/VScale units, the   *)
(*    parameters a, b are counts of 1/100.                                 *)
(***************************************************************************)
EXTENDS Integers, Sequences, FiniteSets, TLC

VARIABLES
    csim,       \* the CUDA SimulationImpl: its timer, and the steps it completed
    conf,       \* build and configuration: multithreaded, threads, stdp, fbits,
                \* shiftWraps, ndebug
    net,        \* the NetworkImpl the simulation is created from
    sim,        \* the members of nemo::cpu::Simulation
    sim2,       \* a second Simulation created from the same net and conf
    status,     \* outcome of the last API call ("OK" or the error thrown)
    lastOp,     \* the last API call
    steps,      \* number of calls of step so far
    firedLog,   \* firedLog[i]: the neurons that fired in the i-th step
    delivered,  \* the deliverSpikesOne calls of the last step and the current they left
    bcm,        \* a generic ConnectivityMatrix under construction (setRow)
    gcm,        \* a CUDA ConnectivityMatrix under construction (addSynapse)
    out,        \* what the last query returned
    knet,       \* the members of the kernel's nemo::cpu::Network
    readMark,   \* number of calls of step when readFiring was last called
    rtdata      \* the members of RuntimeData, the CUDA simulation's runtime data

vars == <<rtdata, readMark, csim, knet, conf, net, sim, sim2, status, lastOp, steps, firedLog, delivered,
          bcm, gcm, out>>

---------------------------------------------------------------------------
(* Bounds of the model *)

StimWindow == 1       \* firing stimulus may be given in the first StimWindow steps
TailSteps == 3        \* steps taken beyond the longest delay of the network
CallWindow == 1       \* calls other than step are made in the first CallWindow cycles
WeightFracBits == 1   \* input weights are multiples of 2^-WeightFracBits
VScale == 10          \* u and v are multiples of 1/VScale
MaxRows == 2          \* rows / synapses added to a matrix under construction
MaxCudaCalls == 3     \* accumulations and applyStdp calls on the CUDA matrix
MaxNeuronIndex == 1   \* neurons 0 .. MaxNeuronIndex are added to the kernel network
MaxKernelSteps == 2   \* steps of the kernel network

(* Program constants *)

WordBits == 64            \* uint64_t
MAX_DELAY == 64
MaxInt32 == 2147483647    \* fix_t is int32_t
SUBSTEPS == 4

MinInt32 == -MaxInt32 - 1

\* nemo_error.h
NEMO_OK == 0
NEMO_INVALID_INPUT == 5
NEMO_UNKNOWN_ERROR == 6
NEMO_LOGIC_ERROR == 9     \* types.h

STDP_NO_APPLICATION == -1    \* ~0, no STDP application
UnsetBits == -1           \* ~0, the value of m_fractionalBits before it is set

MaxApiCalls == 3      \* calls made through the C API in one run
SmallWindow == 2      \* the short STDP window; the long one is 64 - SmallWindow
MaxJobNeurons == 9    \* neurons shared out among the threads
MaxJobThreads == 4    \* threads of the kernel network
MaxHardware == 2      \* largest value of boost::thread::hardware_concurrency()
MaxThreads == 2       \* largest thread count asked for

---------------------------------------------------------------------------
(* Small helpers *)

Min(S) == CHOOSE x \in S : \A y \in S : x <= y
Max(S) == CHOOSE x \in S : \A y \in S : x >= y

Range(f) == {f[i] : i \in DOMAIN f}

\* a sequence of the elements of a finite set of integers, ascending
RECURSIVE Ascending(_)
Ascending(S) == IF S = {} THEN <<>> ELSE <<Min(S)>> \o Ascending(S \ {Min(S)})

\* pairs <<a, b>> in lexicographic order (the order of std::map over tuples)
PairLess(p, q) == p[1] < q[1] \/ (p[1] = q[1] /\ p[2] < q[2])
RECURSIVE AscendingPairs(_)
AscendingPairs(S) ==
    IF S = {} THEN <<>>
    ELSE LET m == CHOOSE p \in S : \A q \in S : p = q \/ PairLess(p, q)
         IN <<m>> \o AscendingPairs(S \ {m})

---------------------------------------------------------------------------
(* 64-bit words *)

AllOnes == 0 .. (WordBits - 1)

\* x << n and x >> n on uint64_t. A shift count >= 64 is undefined behaviour:
\* the build either takes the count modulo 64 (x86 shl/shr) or shifts every
\* bit out; conf.shiftWraps says which.
ShiftLeft(x, n) ==
    LET k == IF n >= WordBits /\ conf.shiftWraps THEN n % WordBits ELSE n
    IN {b + k : b \in x} \cap AllOnes

ShiftRight(x, n) ==
    LET k == IF n >= WordBits /\ conf.shiftWraps THEN n % WordBits ELSE n
    IN {b - k : b \in x} \cap AllOnes

ctz64(x) == Min(x)

clz64(x) == WordBits - 1 - Max(x)

---------------------------------------------------------------------------
(* Fixed point *)

\* an assignment where the code adds: the later value replaces the earlier
Assign32(a, b) == b

\* a + b clamped to the range of int32_t
Add32Saturating(a, b) ==
    IF a > 0 /\ b > 0 /\ a > MaxInt32 - b THEN MaxInt32
    ELSE IF a < 0 /\ b < 0 /\ a < MinInt32 - b THEN MinInt32
    ELSE a + b

\* a += b on int32_t. Signed overflow is undefined; the add instruction of
\* every two's-complement build wraps modulo 2^32.
Add32(a, b) ==
    IF a > 0 /\ b > 0 /\ a > MaxInt32 - b
        THEN (a - MaxInt32 - 1) + (b - MaxInt32 - 1)
    ELSE IF a < 0 /\ b < 0 /\ a < MinInt32 - b
        THEN (a + MaxInt32 + 1) + (b + MaxInt32 + 1)
    ELSE a + b

\* round to nearest, halves away from zero
RoundDiv(x, d) ==
    IF x >= 0 THEN (2 * x + d) \div (2 * d) ELSE -((2 * (-x) + d) \div (2 * d))

\* fx = round(x * 2^f)
fx_toFix(w, fbits) ==
    IF fbits >= WeightFracBits
        THEN w * 2 ^ (fbits - WeightFracBits)
        ELSE RoundDiv(w, 2 ^ (WeightFracBits - fbits))

\* x = fx / 2^f
fx_toFloat(x, fbits) ==
    IF fbits >= WeightFracBits
        THEN x \div 2 ^ (fbits - WeightFracBits)
        ELSE x * 2 ^ (WeightFracBits - fbits)

---------------------------------------------------------------------------
(* Mapper between global and local neuron indices *)

minNeuronIndex(n) == Min(n.m_neurons)
maxNeuronIndex(n) == Max(n.m_neurons)
localIdx(n, g) == g - minNeuronIndex(n)
globalIdx(n, l) == l + minNeuronIndex(n)
neuronCount(n) == IF n.m_neurons = {} THEN 0
                  ELSE maxNeuronIndex(n) - minNeuronIndex(n) + 1

---------------------------------------------------------------------------
(* nemo::ConnectivityMatrix, the generic matrix of the CPU backend *)

\* Row::Row: the terminals of one (source, delay) in fixed point, in the order given
RowReversed(ss, fbits) ==
    [i \in 1 .. Len(ss) |->
        [weight |-> fx_toFix(ss[Len(ss) + 1 - i].weight, fbits),
         target |-> ss[Len(ss) + 1 - i].target]]

Row(ss, fbits) ==
    [i \in 1 .. Len(ss) |->
        [weight |-> fx_toFix(ss[i].weight, fbits), target |-> ss[i].target]]

\* ConnectivityMatrix::ConnectivityMatrix(conf)
NewConnectivityMatrix(fbits) ==
    [m_fractionalBits |-> fbits,
     m_maxDelay       |-> 0,
     m_acc            |-> <<>>,     \* std::map<fidx, Row>, keyed by <<source, delay>>
     m_delays         |-> <<>>,     \* std::map<nidx_t, std::set<delay_t>>
     m_cm             |-> <<>>]     \* std::vector<Row>

\* ConnectivityMatrix::setRow; the targets of ss are global indices and are
\* stored as local ones
setRowAnyDelay(cm, source, delay, ss, n) ==
    IF <<source, delay>> \in DOMAIN cm.m_acc
        THEN [status |-> "InvalidInput", cm |-> cm]
    ELSE LET row == Row(ss, cm.m_fractionalBits)
             local == [i \in DOMAIN row |->
                         [row[i] EXCEPT !.target = localIdx(n, row[i].target)]]
             had == IF source \in DOMAIN cm.m_delays THEN cm.m_delays[source] ELSE {}
         IN [status |-> "OK",
             cm |-> [cm EXCEPT
                 !.m_acc = [k \in DOMAIN cm.m_acc \cup {<<source, delay>>} |->
                               IF k = <<source, delay>> THEN local ELSE cm.m_acc[k]],
                 !.m_delays = [s \in DOMAIN cm.m_delays \cup {source} |->
                               IF s = source THEN had \cup {delay} ELSE cm.m_delays[s]],
                 !.m_maxDelay = IF delay > cm.m_maxDelay THEN delay ELSE cm.m_maxDelay]]

setRow(cm, source, delay, ss, n) ==
    IF delay < 1
        THEN [status |-> "InvalidInput", cm |-> cm]
        ELSE setRowAnyDelay(cm, source, delay, ss, n)

\* the address without the offset of the first delay
addressOfOneBased(cm, source, delay) == source * cm.m_maxDelay + delay

\* ConnectivityMatrix::addressOf, as an index into a 0-based vector
addressOf(cm, source, delay) == source * cm.m_maxDelay + delay - 1

\* a finalizeForward that leaves in a slot without a row the row of the
\* slot before it
finalizeForwardStale(cm, n) ==
    IF neuronCount(n) = 0 THEN cm
    ELSE LET size == neuronCount(n) * cm.m_maxDelay
         IN [cm EXCEPT !.m_cm =
                [i \in 1 .. size |->
                    LET a == i - 1
                        k == <<a \div cm.m_maxDelay, (a % cm.m_maxDelay) + 1>>
                        j == <<k[1], k[2] - 1>>
                    IN IF k \in DOMAIN cm.m_acc THEN cm.m_acc[k]
                       ELSE IF j \in DOMAIN cm.m_acc THEN cm.m_acc[j] ELSE <<>>]]

\* ConnectivityMatrix::finalizeForward
finalizeForward(cm, n) ==
    IF neuronCount(n) = 0 THEN cm
    ELSE LET size == neuronCount(n) * cm.m_maxDelay
         IN [cm EXCEPT !.m_cm =
                [i \in 1 .. size |->
                    LET a == i - 1
                        k == <<a \div cm.m_maxDelay, (a % cm.m_maxDelay) + 1>>
                    IN IF k \in DOMAIN cm.m_acc THEN cm.m_acc[k] ELSE <<>>]]

\* ConnectivityMatrix::getRow: std::vector::at throws when the address is out of range
getRowInRange(cm, source, delay) ==
    addressOf(cm, source, delay) >= 0 /\ addressOf(cm, source, delay) < Len(cm.m_cm)

getRow(cm, source, delay) == cm.m_cm[addressOf(cm, source, delay) + 1]

\* ConnectivityMatrix::getSynapses: the synapses of a source, by ascending delay
RECURSIVE getSynapsesFrom(_, _, _, _)
getSynapsesFrom(cm, source, ds, acc) ==
    IF ds = <<>> \/ acc.status # "OK" THEN acc
    ELSE LET d == Head(ds)
         IN IF ~getRowInRange(cm, source, d)
                THEN [acc EXCEPT !.status = "OutOfRange"]
            ELSE LET ss == getRow(cm, source, d)
                 IN getSynapsesFrom(cm, source, Tail(ds),
                      [status  |-> "OK",
                       targets |-> acc.targets \o [i \in DOMAIN ss |-> ss[i].target],
                       delays  |-> acc.delays \o [i \in DOMAIN ss |-> d],
                       weights |-> acc.weights \o
                           [i \in DOMAIN ss |-> fx_toFloat(ss[i].weight, cm.m_fractionalBits)],
                       plastic |-> acc.plastic \o [i \in DOMAIN ss |-> 0]])

NoSynapses(st) ==
    [status |-> st, targets |-> <<>>, delays |-> <<>>, weights |-> <<>>, plastic |-> <<>>]

cmGetSynapses(cm, source) ==
    IF source \notin DOMAIN cm.m_delays
        THEN NoSynapses("InvalidInput")
        ELSE getSynapsesFrom(cm, source, Ascending(cm.m_delays[source]), NoSynapses("OK"))

---------------------------------------------------------------------------
(* nemo::cpu::Simulation *)

Locals(n) == 0 .. (neuronCount(n) - 1)

\* nemo::initialiseRng and RNG::gaussian: one generator per neuron, seeded
\* from the neuron's index alone
initialiseRng(l) == l + 1
rngNext(r) == (5 * r + 3) % 16
rngGaussian(r) == (rngNext(r) % 5) - 2

\* Simulation::setConnectivityMatrix: one setRow per (source, delay) of the
\* network, in the order of its maps, then finalize
RECURSIVE setRows(_, _, _)
setRows(acc, keys, n) ==
    IF keys = <<>> \/ acc.status # "OK" THEN acc
    ELSE LET k == Head(keys)
         IN setRows(setRow(acc.cm, localIdx(n, k[1]), k[2], n.m_fcm[k], n), Tail(keys), n)

setConnectivityMatrix(cm, n) ==
    LET r == setRows([status |-> "OK", cm |-> cm], AscendingPairs(DOMAIN n.m_fcm), n)
    IN IF r.status = "OK" THEN [r EXCEPT !.cm = finalizeForward(r.cm, n)] ELSE r

\* Simulation::initWorkers with Worker's range: worker t updates
\* [t * jobSize, min((t + 1) * jobSize, neurons))
initWorkers(neurons, threads) ==
    LET jobSize == neurons \div threads
    IN [t \in 1 .. threads |->
          [start |-> (t - 1) * jobSize,
           end   |-> IF t * jobSize < neurons THEN t * jobSize ELSE neurons]]

\* Simulation::Simulation
NewSimulation(n, c) ==
    LET L == Locals(n)
        valid == [l \in L |-> globalIdx(n, l) \in n.m_neurons]
        param(l, f, scale) == IF valid[l] THEN n.neuron[globalIdx(n, l)][f] * scale ELSE 0
    IN [m_neuronCount  |-> neuronCount(n),
        m_a            |-> [l \in L |-> param(l, "a", 1)],
        m_b            |-> [l \in L |-> param(l, "b", 1)],
        m_c            |-> [l \in L |-> param(l, "c", VScale)],
        m_d            |-> [l \in L |-> param(l, "d", VScale)],
        m_u            |-> [l \in L |-> param(l, "u", VScale)],
        m_v            |-> [l \in L |-> param(l, "v", VScale)],
        m_sigma        |-> [l \in L |-> param(l, "sigma", 1)],
        m_valid        |-> valid,
        m_fired        |-> [l \in L |-> FALSE],
        m_recentFiring |-> [l \in L |-> {}],
        m_cm           |-> setConnectivityMatrix(NewConnectivityMatrix(c.fbits), n).cm,
        m_current      |-> [l \in L |-> 0],
        m_fstim        |-> [l \in L |-> FALSE],
        m_rng          |-> [l \in L |-> initialiseRng(l)],
        m_lastFlush    |-> 0,
        m_stdp         |-> c.stdp,
        m_workers      |-> IF c.multithreaded
                              THEN initWorkers(neuronCount(n), c.threads) ELSE <<>>,
        m_timer        |-> 0,
        m_firedCycle   |-> <<>>,
        m_firedNeuron  |-> <<>>,
        m_firedCycleExt  |-> <<>>,
        m_firedNeuronExt |-> <<>>]

\* Simulation::setFiringStimulus; std::vector::at throws on an index out of
\* range, after the entries before it have been set
RECURSIVE setFiringStimulus(_, _, _)
setFiringStimulus(s, fstim, n) ==
    IF fstim = <<>> THEN [status |-> "OK", sim |-> s]
    ELSE LET l == localIdx(n, Head(fstim))
         IN IF l \notin DOMAIN s.m_fstim
                THEN [status |-> "OutOfRange", sim |-> s]
                ELSE setFiringStimulus([s EXCEPT !.m_fstim[l] = TRUE], Tail(fstim), n)

\* Simulation::deliverSpikesOne: add the weights of row (source, delay) to
\* the current of their targets
RECURSIVE addRow(_, _, _)
addRow(d, row, i) ==
    IF i > Len(row) \/ d.status # "OK" THEN d
    ELSE IF row[i].target \notin DOMAIN d.current
        \* assert(terminal.target < m_current.size()), then m_current.at()
        THEN [d EXCEPT !.status = IF conf.ndebug THEN "OutOfRange" ELSE "Abort"]
    ELSE addRow([d EXCEPT !.current[row[i].target] = Add32(@, row[i].weight)], row, i + 1)

deliverSpikesOne(d, cm, source, delay) ==
    IF ~getRowInRange(cm, source, delay)
        THEN [d EXCEPT !.status = "OutOfRange"]
        ELSE addRow([d EXCEPT !.calls = Append(d.calls, <<source, delay>>)],
                    getRow(cm, source, delay), 1)

\* the while(f) loop of Simulation::deliverSpikes for one source
RECURSIVE deliverSpikesFrom(_, _, _, _, _)
deliverSpikesFrom(d, cm, source, f, delay) ==
    IF f = {} \/ d.status # "OK" THEN d
    ELSE LET shift == 1 + ctz64(f)
         IN deliverSpikesFrom(deliverSpikesOne(d, cm, source, delay + shift),
                              cm, source, ShiftRight(f, shift), delay + shift)

\* validSpikes = ~(((uint64_t) (~0)) << m_cm.maxDelay())
validSpikes(cm) == AllOnes \ ShiftLeft(AllOnes, cm.m_maxDelay)

\* Simulation::deliverSpikes
RECURSIVE deliverSpikesLoop(_, _, _)
deliverSpikesLoop(d, s, source) ==
    IF source >= s.m_neuronCount \/ d.status # "OK" THEN d
    ELSE deliverSpikesLoop(
            deliverSpikesFrom(d, s.m_cm, source,
                              s.m_recentFiring[source] \cap validSpikes(s.m_cm), 0),
            s, source + 1)

deliverSpikes(s) ==
    deliverSpikesLoop([status |-> "OK", current |-> s.m_current, calls |-> <<>>], s, 0)

\* ConnectivityMatrix::delayBits: bit d - 1 is set iff the source has a
\* synapse of delay d; 0 for a source without synapses
delayBits(cm, l_source) ==
    IF l_source \in DOMAIN cm.m_delays THEN {d - 1 : d \in cm.m_delays[l_source]} ELSE {}

\* spike delivery that masks the events of a source with its delay bits
\* before it scans them
RECURSIVE deliverSpikesMaskedLoop(_, _, _)
deliverSpikesMaskedLoop(d, s, source) ==
    IF source >= s.m_neuronCount \/ d.status # "OK" THEN d
    ELSE deliverSpikesMaskedLoop(
            deliverSpikesFrom(d, s.m_cm, source,
                              (s.m_recentFiring[source] \cap validSpikes(s.m_cm))
                                  \cap delayBits(s.m_cm, source), 0),
            s, source + 1)

deliverSpikesMasked(s) ==
    deliverSpikesMaskedLoop([status |-> "OK", current |-> s.m_current, calls |-> <<>>], s, 0)

\* a thalamic input drawn from one generator shared by all neurons
thalamicInputShared(s, n) ==
    [value |-> s.m_sigma[n] * rngGaussian(s.m_rng[0]) * VScale,
     sim   |-> [s EXCEPT !.m_rng[0] = rngNext(@)]]

\* the thalamic input of neuron n: sigma * gaussian of the neuron's own generator
thalamicInput(s, n) ==
    [value |-> s.m_sigma[n] * rngGaussian(s.m_rng[n]) * VScale,
     sim   |-> [s EXCEPT !.m_rng[n] = rngNext(@)]]

\* SUBSTEPS integration sub-steps that go on after the neuron has fired
RECURSIVE substepsAll(_, _, _, _, _)
substepsAll(st, a, b, current, t) ==
    IF t >= SUBSTEPS THEN st
    ELSE LET v == st.v + ((st.v * st.v) \div (25 * VScale) + 5 * st.v
                          + 140 * VScale - st.u + current) \div 4
             u == st.u + (a * ((b * v) \div 100 - st.u)) \div 400
         IN substepsAll([v |-> v, u |-> u, fired |-> st.fired \/ v >= 30 * VScale],
                        a, b, current, t + 1)

\* the SUBSTEPS integration sub-steps of one neuron; st = [v, u, fired]
RECURSIVE substeps(_, _, _, _, _)
substeps(st, a, b, current, t) ==
    IF t >= SUBSTEPS THEN st
    ELSE IF st.fired THEN substeps(st, a, b, current, t + 1)
    ELSE LET v == st.v + ((st.v * st.v) \div (25 * VScale) + 5 * st.v
                          + 140 * VScale - st.u + current) \div 4
             u == st.u + (a * ((b * v) \div 100 - st.u)) \div 400
         IN substeps([v |-> v, u |-> u, fired |-> v >= 30 * VScale], a, b, current, t + 1)

\* how the fired flag and the firing stimulus combine, and the history shift
firedOrForced(fired, fstim) == fired \/ fstim

\* a history update that ors the fired flag in without shifting
shiftHistoryNoShift(h, fired) == h \cup (IF fired THEN {0} ELSE {})

\* m_recentFiring[n] = (m_recentFiring[n] << 1) | (uint64_t) m_fired[n]
shiftHistory(h, fired) == ShiftLeft(h, 1) \cup (IF fired THEN {0} ELSE {})

\* the body of the loop of Simulation::updateRange for neuron n, after the
\* test of m_valid[n]
updateValidNeuron(s, n) ==
    LET synaptic == (fx_toFloat(s.m_current[n], s.m_cm.m_fractionalBits) * VScale)
                         \div (2 ^ WeightFracBits)
        noise == IF s.m_sigma[n] # 0 THEN thalamicInput(s, n)
                                     ELSE [value |-> 0, sim |-> s]
        s1 == noise.sim
        st == substeps([v |-> s1.m_v[n], u |-> s1.m_u[n], fired |-> FALSE],
                       s1.m_a[n], s1.m_b[n], synaptic + noise.value, 0)
        fired == firedOrForced(st.fired, s1.m_fstim[n])
    IN [s1 EXCEPT
          !.m_current[n] = 0,
          !.m_fired[n] = fired,
          !.m_recentFiring[n] = shiftHistory(@, fired),
          !.m_v[n] = IF fired THEN s1.m_c[n] ELSE st.v,
          !.m_u[n] = IF fired THEN st.u + s1.m_d[n] ELSE st.u]

\* the body of the loop of Simulation::updateRange for neuron n
updateNeuron(s, n) == IF ~s.m_valid[n] THEN s ELSE updateValidNeuron(s, n)

\* Simulation::updateRange
RECURSIVE updateRange(_, _, _)
updateRange(s, start, end) ==
    IF start >= end THEN s ELSE updateRange(updateNeuron(s, start), start + 1, end)

\* the workers of one update, run one after the other in the order sched
\* (a permutation of the workers: the threads own disjoint ranges)
RECURSIVE runWorkers(_, _)
runWorkers(s, sched) ==
    IF sched = <<>> THEN s
    ELSE LET w == s.m_workers[Head(sched)]
         IN runWorkers(updateRange(s, w.start, w.end), Tail(sched))

\* Simulation::accumulateStdp is not implemented: it throws
accumulateStdp(s) == [status |-> "Unsupported", sim |-> s]

\* Simulation::update. In the multithreaded build the `else` of the worker
\* test binds to the STDP test that follows the #endif.
update(s, sched) ==
    IF conf.multithreaded
        THEN IF Len(s.m_workers) > 1
                THEN [status |-> "OK", sim |-> runWorkers(s, sched)]
                ELSE IF s.m_stdp THEN accumulateStdp(s)
                                 ELSE [status |-> "OK", sim |-> s]
        ELSE LET s1 == updateRange(s, 0, s.m_neuronCount)
             IN IF s.m_stdp THEN accumulateStdp(s1)
                            ELSE [status |-> "OK", sim |-> s1]

\* Simulation::setFiring
RECURSIVE setFiringLoop(_, _, _, _)
setFiringLoop(s, t, l, n) ==
    IF l >= s.m_neuronCount THEN s
    ELSE setFiringLoop(
            IF s.m_fired[l]
                THEN [s EXCEPT !.m_firedCycle = Append(@, t),
                               !.m_firedNeuron = Append(@, globalIdx(n, l))]
                ELSE s,
            t, l + 1, n)

\* a setFiring that tags with the cycle counter itself
setFiringAbsolute(s, n) == setFiringLoop(s, s.m_timer, 0, n)

setFiring(s, n) == setFiringLoop(s, s.m_timer - s.m_lastFlush, 0, n)

\* Simulation::step
step(s, sched, n) ==
    LET d == deliverSpikes(s)
        s1 == [s EXCEPT !.m_current = d.current]
        u == update(s1, sched)
        s3 == setFiring(u.sim, n)
        ran == d.status = "OK" /\ (~conf.multithreaded \/ Len(s.m_workers) > 1)
    IN IF d.status # "OK"
          THEN [status |-> d.status, sim |-> s1, calls |-> d.calls,
                current |-> d.current, ran |-> FALSE]
       ELSE IF u.status # "OK"
          THEN [status |-> u.status, sim |-> u.sim, calls |-> d.calls,
                current |-> d.current, ran |-> ran]
       ELSE [status |-> "OK",
             sim |-> [s3 EXCEPT !.m_timer = @ + 1,
                                !.m_fstim = [l \in DOMAIN @ |-> FALSE]],
             calls |-> d.calls, current |-> d.current, ran |-> ran]

\* Simulation::step(fstim): set the firing stimulus, then step
stepWithStimulus(s, fstim, sched, n) ==
    LET f == setFiringStimulus(s, fstim, n)
    IN IF f.status # "OK"
          THEN [status |-> f.status, sim |-> f.sim, calls |-> <<>>,
                current |-> f.sim.m_current, ran |-> FALSE]
          ELSE step(f.sim, sched, n)

\* Simulation::readFiring
readFiring(s) ==
    [ret |-> s.m_timer - s.m_lastFlush,
     sim |-> [s EXCEPT !.m_lastFlush = s.m_timer,
                       !.m_firedCycleExt = s.m_firedCycle,
                       !.m_firedNeuronExt = s.m_firedNeuron,
                       !.m_firedCycle = <<>>,
                       !.m_firedNeuron = <<>>]]

\* Timer::reset: the simulated time counts from the last reset
timerReset(t) == 0

\* Simulation::resetTimer
resetTimer(s) == [s EXCEPT !.m_timer = timerReset(@)]

\* Simulation::flushFiringBuffer
flushFiringBuffer(s) == [s EXCEPT !.m_firedCycle = <<>>, !.m_firedNeuron = <<>>]

\* an applyStdp that applies the reward to every row of the forward matrix
applyStdpAll(s, reward) ==
    [status |-> "OK",
     sim |-> [s EXCEPT !.m_cm.m_cm = [a \in DOMAIN @ |->
                 [i \in DOMAIN @[a] |-> [@[a][i] EXCEPT !.weight = @ + reward]]]]]

\* Simulation::applyStdp is not implemented: it throws
applyStdp(s, reward) == [status |-> "Unsupported", sim |-> s]

\* Simulation::getSynapses: the targets are mapped back to global indices
getSynapses(s, sourceNeuron, n) ==
    LET r == cmGetSynapses(s.m_cm, sourceNeuron)
    IN [r EXCEPT !.targets = [i \in DOMAIN @ |-> globalIdx(n, @[i])]]

---------------------------------------------------------------------------
(* CUDA ConnectivityMatrix, host side *)

\* ConnectivityMatrix::ConnectivityMatrix(maxPartitionSize, setReverse)
NewCudaConnectivityMatrix(maxPartitionSize, setReverse) ==
    [m_maxPartitionSize |-> maxPartitionSize,
     m_maxDelay         |-> 0,
     m_setReverse       |-> setReverse,
     m_maxPartitionIdx  |-> 0,
     m_maxAbsWeight     |-> 0,
     m_fractionalBits   |-> UnsetBits,
     mh_fcm             |-> <<>>,   \* keyed by <<sp, sn, tp, delay>>
     m_rsynapses        |-> <<>>,   \* keyed by target partition
     m_outgoing         |-> <<>>]   \* Outgoing::m_acc, keyed by <<sp, sn, tp, delay>>

\* the test `m_setReverse && plastic` of addSynapse
reverseIndexedAlways(setReverse, plastic) == setReverse

reverseIndexed(setReverse, plastic) == setReverse /\ plastic # 0

\* ConnectivityMatrix::addSynapse. ERROR(...) throws.
cudaAddSynapseUnchecked(cm, sp, sn, delay, tp, tn, w, plastic) ==
    LET k == <<sp, sn, tp, delay>>
        bundle == IF k \in DOMAIN cm.mh_fcm THEN cm.mh_fcm[k] ELSE <<>>
        sidx == Len(bundle)
        rs == IF tp \in DOMAIN cm.m_rsynapses THEN cm.m_rsynapses[tp] ELSE <<>>
        \* RSMatrix::addSynapse: the reverse address and its STDP accumulator
        rentry == [sp |-> sp, sn |-> sn, sidx |-> sidx, tn |-> tn, delay |-> delay,
                   stdp |-> 0]
    IN [status |-> "OK",
        cm |-> [cm EXCEPT
            !.mh_fcm = [x \in DOMAIN cm.mh_fcm \cup {k} |->
                IF x = k
                    THEN Append(bundle, [target |-> tn, weight |-> w, plastic |-> plastic])
                    ELSE cm.mh_fcm[x]],
            !.m_maxAbsWeight = IF w > @ THEN w ELSE @,
            !.m_maxPartitionIdx = Max({@, sp, tp}),
            !.m_rsynapses = IF reverseIndexed(cm.m_setReverse, plastic)
                THEN [x \in DOMAIN cm.m_rsynapses \cup {tp} |->
                        IF x = tp THEN Append(rs, rentry) ELSE cm.m_rsynapses[x]]
                ELSE @,
            !.m_maxDelay = IF delay > @ THEN delay ELSE @]]

\* ceilf(log2(w)) for a weight w >= 1.0
RECURSIVE log2CeilFrom(_, _)
log2CeilFrom(w, k) == IF w <= 2 ^ (k + WeightFracBits) THEN k ELSE log2CeilFrom(w, k + 1)

\* ConnectivityMatrix::setFractionalBits. For a maximum below 1.0 the
\* logarithm is negative (or minus infinity) and its conversion to uint is
\* not defined.
setFractionalBits(cm) ==
    IF cm.m_maxAbsWeight < 2 ^ WeightFracBits
        THEN [defined |-> FALSE, fbits |-> 0]
        ELSE [defined |-> TRUE, fbits |-> 31 - log2CeilFrom(cm.m_maxAbsWeight, 0) - 5]

\* SimulationImpl: the simulation timer m_timer (Timer::step adds one cycle,
\* Timer::reset starts again from zero), with the number of steps that
\* completed since the last reset
NewCudaSimulation == [m_timer |-> 0, completed |-> 0]

\* SimulationImpl::step. The timer is stepped first; the copy of the
\* stimulus, the kernel launch and the device assertions follow and throw
\* when the device reports an error.
cudaStep(cs, device) ==
    LET s1 == [cs EXCEPT !.m_timer = @ + 1]
    IN IF device # "cudaSuccess"
          THEN [status |-> "Error", sim |-> s1]
          ELSE [status |-> "OK", sim |-> [s1 EXCEPT !.completed = @ + 1]]

\* SimulationImpl::resetTimer
cudaResetTimer(cs) == [cs EXCEPT !.m_timer = 0, !.completed = 0]

\* the call of setFractionalBits in ConnectivityMatrix::moveToDevice; the
\* conversion of minus infinity to uint gives 0 on the usual builds
cudaMoveToDevice(cm) ==
    LET f == setFractionalBits(cm)
    IN [cm EXCEPT !.m_fractionalBits = IF f.defined THEN f.fbits ELSE 31 - 0 - 5]

\* ConnectivityMatrix::fractionalBits: what the call does, a returned value
\* or a thrown std::runtime_error
cudaFractionalBits(cm) ==
    IF cm.m_fractionalBits = UnsetBits
        THEN [kind |-> "std", errno |-> NEMO_OK, what |-> "std", value |-> 0]
        ELSE [kind |-> "return", errno |-> NEMO_OK, what |-> "", value |-> cm.m_fractionalBits]

\* ConnectivityMatrix::ConnectivityMatrix(const ConfigurationImpl&) of the
\* generic matrix
NewConnectivityMatrixOf(fractionalBitsSet, fbits) ==
    IF ~fractionalBitsSet
        THEN [kind |-> "nemo", errno |-> NEMO_LOGIC_ERROR, what |-> "nemo", value |-> 0]
        ELSE [kind |-> "return", errno |-> NEMO_OK, what |-> "", value |-> fbits]

cudaAddSynapse(cm, sp, sn, delay, tp, tn, w, plastic) ==
    IF delay > MAX_DELAY \/ delay = 0
        THEN [status |-> "Error", cm |-> cm]
        ELSE cudaAddSynapseUnchecked(cm, sp, sn, delay, tp, tn, w, plastic)

\* ConnectivityMatrix::neuronIdx and partitionIdx
neuronIdx(cm, nidx) == nidx % cm.m_maxPartitionSize

partitionIdx(cm, pidx) == pidx \div cm.m_maxPartitionSize

\* Outgoing::addSynapse: m_acc[skey(sp, sn)][tkey(tp, delay)] += 1
outgoingAddSynapse(acc, sp, sn, delay, tp) ==
    LET k == <<sp, sn, tp, delay>>
    IN [x \in DOMAIN acc \cup {k} |->
          IF x = k THEN (IF k \in DOMAIN acc THEN acc[k] ELSE 0) + 1 ELSE acc[x]]

\* v[i] of a std::vector: a read past the end is undefined and yields junk
ElementAt(v, i, junk) == IF i \in DOMAIN v THEN v[i] ELSE junk

\* the loop of ConnectivityMatrix::addSynapses from element i on; an
\* ERROR thrown by addSynapse leaves what the earlier elements have added
RECURSIVE cudaAddSynapsesFrom(_, _, _, _, _, _, _, _)
cudaAddSynapsesFrom(cm, src, targets, delays, weights, isPlastic, junk, i) ==
    IF i > Len(targets) THEN [status |-> "OK", cm |-> cm]
    ELSE LET sp == partitionIdx(cm, src)
             sn == neuronIdx(cm, src)
             tp == partitionIdx(cm, targets[i])
             tn == neuronIdx(cm, targets[i])
             delay == ElementAt(delays, i, junk.delay)
             r == cudaAddSynapse(cm, sp, sn, delay, tp, tn,
                                 ElementAt(weights, i, junk.weight),
                                 ElementAt(isPlastic, i, junk.plastic))
         IN IF r.status # "OK" THEN r
            ELSE cudaAddSynapsesFrom(
                    [r.cm EXCEPT !.m_outgoing = outgoingAddSynapse(@, sp, sn, delay, tp)],
                    src, targets, delays, weights, isPlastic, junk, i + 1)

\* ConnectivityMatrix::addSynapses. The lengths are compared by asserts only.
cudaAddSynapses(cm, src, targets, delays, weights, isPlastic, junk) ==
    LET length == Len(targets)
    IN IF ~conf.ndebug /\ (length # Len(delays) \/ length # Len(weights)
                              \/ length # Len(isPlastic))
          THEN [status |-> "Abort", cm |-> cm]
       ELSE IF length = 0 THEN [status |-> "OK", cm |-> cm]
       ELSE IF neuronIdx(cm, src) >= cm.m_maxPartitionSize
          THEN [status |-> "Error", cm |-> cm]
       ELSE cudaAddSynapsesFrom(cm, src, targets, delays, weights, isPlastic, junk, 1)

\* ConnectivityMatrix::clearStdpAccumulator: every reverse matrix clears its
\* accumulator plane
cudaClearStdpAccumulatorNone(cm) == cm

cudaClearStdpAccumulator(cm) ==
    [cm EXCEPT !.m_rsynapses = [tp \in DOMAIN @ |->
        [i \in DOMAIN @[tp] |-> [@[tp][i] EXCEPT !.stdp = 0]]]]

\* the accumulation of one weight change for reverse entry i of partition tp
cudaAccumulate(cm, tp, i, delta) ==
    [cm EXCEPT !.m_rsynapses[tp][i].stdp = @ + delta]

\* the bounded update of one weight: the sign never flips
stdpClamp(w, dw, fn) ==
    IF w >= 0 THEN Max({0, Min({fn.maxWeight, w + dw})})
              ELSE Min({0, Max({fn.minWeight, w + dw})})

\* the weight update for the reverse entries of partition tp from entry i on
RECURSIVE stdpKernelFrom(_, _, _, _, _, _)
stdpKernelFrom(fcm, rs, tp, reward, fn, i) ==
    IF i > Len(rs) THEN fcm
    ELSE LET e == rs[i]
             k == <<e.sp, e.sn, tp, e.delay>>
         IN stdpKernelFrom(
              [fcm EXCEPT ![k][e.sidx + 1].weight = stdpClamp(@, reward * e.stdp, fn)],
              rs, tp, reward, fn, i + 1)

RECURSIVE stdpKernelAll(_, _, _, _, _)
stdpKernelAll(fcm, rcm, tps, reward, fn) ==
    IF tps = <<>> THEN fcm
    ELSE stdpKernelAll(stdpKernelFrom(fcm, rcm[Head(tps)], Head(tps), reward, fn, 1),
                       rcm, Tail(tps), reward, fn)

\* the kernel ::applyStdp: fold the accumulators into the weights, clear them
applyStdpKernel(cm, reward, fn) ==
    cudaClearStdpAccumulator(
        [cm EXCEPT !.mh_fcm = stdpKernelAll(@, cm.m_rsynapses,
                                 Ascending(DOMAIN cm.m_rsynapses), reward, fn)])

\* SimulationImpl::applyStdp
cudaApplyStdp(cm, fn, reward) ==
    IF ~fn.enabled THEN cm
    ELSE IF reward = 0 THEN cudaClearStdpAccumulator(cm)
    ELSE applyStdpKernel(cm, reward, fn)

---------------------------------------------------------------------------
(* The networks and configurations the simulations are created from *)

\* a regular-spiking Izhikevich neuron (a, b in 1/100) with thalamic sigma
Neuron(sigma) ==
    [a |-> 2, b |-> 20, c |-> -65, d |-> 8, u |-> -13, v |-> -65, sigma |-> sigma]

\* an axon terminal as given to addSynapse; the weight counts 2^-WeightFracBits
Terminal(target, weight, plastic) ==
    [target |-> target, weight |-> weight, plastic |-> plastic]

\* NetworkImpl::addSynapse: append to the bundle m_fcm[source][delay]
addSynapse(fcm, source, target, delay, weight, plastic) ==
    LET k == <<source, delay>>
        bundle == IF k \in DOMAIN fcm THEN fcm[k] ELSE <<>>
    IN [x \in DOMAIN fcm \cup {k} |->
          IF x = k THEN Append(bundle, Terminal(target, weight, plastic)) ELSE fcm[x]]

RECURSIVE addAll(_, _)
addAll(fcm, syn) ==
    IF syn = <<>> THEN fcm
    ELSE addAll(addSynapse(fcm, syn[1][1], syn[1][2], syn[1][3], syn[1][4], syn[1][5]),
                Tail(syn))

Network(neurons, sigma, syn) ==
    [m_neurons |-> neurons,
     neuron    |-> [g \in neurons |-> Neuron(sigma)],
     m_fcm     |-> addAll(<<>>, syn),
     synapses  |-> syn]

Strong == 2048 * 2 ^ (WeightFracBits - 1)     \* the weight 1024.0
Weak == 41 * 2 ^ (WeightFracBits - 1)         \* the weight 20.5
Unit == 2 ^ WeightFracBits                    \* the weight 1.0

\* each scenario: a network and the number of fractional bits configured for it
Scenarios ==
    { \* delays 1 and MAX_DELAY from one source
      [net |-> Network({1, 2}, 0, << <<1, 2, 1, Strong, 0>>, <<1, 2, MAX_DELAY, Weak, 0>> >>),
       fbits |-> 0],
      \* a loop with thalamic input, one plastic synapse
      [net |-> Network({1, 2}, 300, << <<1, 2, 2, Strong, 0>>, <<2, 1, 1, Weak, 1>> >>),
       fbits |-> 0],
      \* two maximal weights onto one target in one row
      [net |-> Network({1, 2}, 0, << <<1, 2, 1, Strong, 0>>, <<1, 2, 1, Strong, 0>>,
                             <<2, 1, 2, -Strong, 0>> >>),
       fbits |-> 20],
      \* three delays from one source, not given by ascending delay, and two
      \* different terminals in one row
      [net |-> Network({0, 1}, 0, << <<0, 1, 2, Unit, 0>>, <<0, 1, 1, Unit, 0>>,
                                     <<0, 0, 1, Weak, 0>>, <<0, 1, 3, Unit, 1>>,
                                     <<0, 1, 1, Weak, 0>>, <<1, 1, 1, Weak, 0>> >>),
       fbits |-> 0] }

\* the builds and thread counts chooseHardwareConfiguration accepts
Builds ==
    {b \in [multithreaded : BOOLEAN, threads : {1, 2}] : b.multithreaded \/ b.threads = 1}

Configurations(fbits) ==
    {[multithreaded |-> b.multithreaded, threads |-> b.threads, stdp |-> st,
      fbits |-> fbits, shiftWraps |-> sw, ndebug |-> FALSE] :
        b \in Builds, st \in BOOLEAN, sw \in BOOLEAN}

\* the firing stimulus of one step
Stimuli(n) ==
    IF n.m_neurons = {} THEN {<<>>}
    ELSE LET lo == minNeuronIndex(n)
             hi == maxNeuronIndex(n)
         IN {<<>>, <<lo>>, <<hi>>, <<lo, hi>>}

\* the orders in which the workers of one update may run
Schedules(s) ==
    IF Len(s.m_workers) = 2 THEN {<<1, 2>>, <<2, 1>>}
    ELSE {[i \in 1 .. Len(s.m_workers) |-> i]}

---------------------------------------------------------------------------
(* nemo::cpu::Network of the kernel: incremental construction, then steps *)

\* indices are used as they are given: the network has no mapper
Indices(count) == [m_neurons |-> 0 .. (count - 1)]

\* Network::Network(); the matrix keeps the weights as they are given
NewKernelNetwork ==
    [m_constructing |-> TRUE,
     m_neuronCount  |-> 0,
     m_cycle        |-> 0,
     m_acc          |-> <<>>,      \* std::map<nidx_t, Neuron>
     m_a |-> <<>>, m_b |-> <<>>, m_c |-> <<>>, m_d |-> <<>>,
     m_u |-> <<>>, m_v |-> <<>>, m_sigma |-> <<>>,
     m_pfired       |-> <<>>,
     m_recentFiring |-> <<>>,
     m_current      |-> <<>>,
     m_rng          |-> initialiseRng(0),
     m_cm           |-> NewConnectivityMatrix(WeightFracBits)]

\* Network::addNeuron: both conditions are asserts, compiled out with NDEBUG
kernelAddNeuron(k, neuronIndex, neuron) ==
    IF ~conf.ndebug /\ (~k.m_constructing \/ neuronIndex \in DOMAIN k.m_acc)
        THEN [status |-> "Abort", net |-> k]
        ELSE [status |-> "OK",
              net |-> [k EXCEPT !.m_acc = [i \in DOMAIN @ \cup {neuronIndex} |->
                          IF i = neuronIndex THEN neuron ELSE @[i]]]]

\* a finalize that copies no neuron
kernelCopyNone(r, idxs) == r

\* the loop of Network::finalize: m_a.at(idx) = n.a, ... for the entries of
\* m_acc by ascending index; at() throws for an index beyond the vectors
RECURSIVE kernelCopyNeurons(_, _)
kernelCopyNeurons(r, idxs) ==
    IF idxs = <<>> \/ r.status # "OK" THEN r
    ELSE LET idx == Head(idxs)
             n == r.net.m_acc[idx]
         IN IF idx \notin DOMAIN r.net.m_a
               THEN [r EXCEPT !.status = "OutOfRange"]
               ELSE kernelCopyNeurons(
                      [r EXCEPT !.net.m_a[idx] = n.a, !.net.m_b[idx] = n.b,
                                !.net.m_c[idx] = n.c * VScale, !.net.m_d[idx] = n.d * VScale,
                                !.net.m_u[idx] = n.u * VScale, !.net.m_v[idx] = n.v * VScale,
                                !.net.m_sigma[idx] = n.sigma],
                      Tail(idxs))

\* a finalize that does not test m_constructing
kernelFinalizeAgain(k, endFirst) ==
    LET count == Cardinality(DOMAIN k.m_acc)
        minIdx == IF k.m_acc = <<>> THEN endFirst ELSE Min(DOMAIN k.m_acc)
        maxIdx == endFirst - 1
        zeros == [i \in 0 .. (count - 1) |-> 0]
        k1 == [k EXCEPT !.m_constructing = FALSE, !.m_neuronCount = count]
        k2 == [k1 EXCEPT !.m_a = zeros, !.m_b = zeros, !.m_c = zeros, !.m_d = zeros,
                         !.m_u = zeros, !.m_v = zeros, !.m_sigma = zeros]
        r == kernelCopyNeurons([status |-> "OK", net |-> k2], Ascending(DOMAIN k.m_acc))
    IN IF ~conf.ndebug /\ count # maxIdx + 1 - minIdx
          THEN [status |-> "Abort", net |-> k1]
       ELSE IF r.status # "OK" THEN r
       ELSE [status |-> "OK",
             net |-> [r.net EXCEPT !.m_acc = <<>>,
                                   !.m_pfired = [i \in DOMAIN zeros |-> FALSE],
                                   !.m_recentFiring = [i \in DOMAIN zeros |-> {}],
                                   !.m_current = zeros]]

\* Network::finalize. m_acc.end()->first reads past the map (undefined):
\* endFirst is the value the build finds there; an empty map has begin() = end().
kernelFinalize(k, endFirst) ==
    IF ~k.m_constructing THEN [status |-> "OK", net |-> k]
    ELSE LET count == Cardinality(DOMAIN k.m_acc)
             minIdx == IF k.m_acc = <<>> THEN endFirst ELSE Min(DOMAIN k.m_acc)
             maxIdx == endFirst - 1
             zeros == [i \in 0 .. (count - 1) |-> 0]
             k1 == [k EXCEPT !.m_constructing = FALSE, !.m_neuronCount = count]
             k2 == [k1 EXCEPT !.m_a = zeros, !.m_b = zeros, !.m_c = zeros, !.m_d = zeros,
                              !.m_u = zeros, !.m_v = zeros, !.m_sigma = zeros]
             r == kernelCopyNeurons([status |-> "OK", net |-> k2],
                                    Ascending(DOMAIN k.m_acc))
         IN IF ~conf.ndebug /\ count # maxIdx + 1 - minIdx
               THEN [status |-> "Abort", net |-> k1]
            ELSE IF r.status # "OK" THEN r
            ELSE [status |-> "OK",
                  net |-> [r.net EXCEPT !.m_acc = <<>>,
                                        !.m_pfired = [i \in DOMAIN zeros |-> FALSE],
                                        !.m_recentFiring = [i \in DOMAIN zeros |-> {}],
                                        !.m_current = zeros]]

\* Network::addSynapses: hands the row to the connectivity matrix
kernelAddSynapses(k, source, delay, ss) ==
    LET r == setRow(k.m_cm, source, delay, ss, Indices(1))
    IN [status |-> r.status, net |-> [k EXCEPT !.m_cm = r.cm]]

\* Network::startSimulation: finalize, then finalize the matrix
kernelStartSimulation(k, endFirst) ==
    LET f == kernelFinalize(k, endFirst)
    IN IF f.status # "OK" THEN f
       ELSE [f EXCEPT !.net.m_cm = finalizeForward(@, Indices(f.net.m_neuronCount))]

\* Network::deliverSpikesOne: m_current[s.target] += s.weight, unchecked; a
\* write past the vector is undefined: it is lost or the process dies (ub)
RECURSIVE kernelAddRow(_, _, _, _)
kernelAddRow(d, row, i, ub) ==
    IF i > Len(row) \/ d.status # "OK" THEN d
    ELSE IF row[i].target \notin DOMAIN d.current
        THEN kernelAddRow([d EXCEPT !.status = ub], row, i + 1, ub)
    ELSE kernelAddRow([d EXCEPT !.current[row[i].target] = @ + row[i].weight],
                      row, i + 1, ub)

kernelDeliverSpikesOne(d, cm, source, delay, ub) ==
    IF ~getRowInRange(cm, source, delay)
        THEN [d EXCEPT !.status = "OutOfRange"]
        ELSE kernelAddRow(d, getRow(cm, source, delay), 1, ub)

\* the while(f) loop of Network::deliverSpikes for one source
RECURSIVE kernelDeliverSpikesFrom(_, _, _, _, _, _)
kernelDeliverSpikesFrom(d, cm, source, f, delay, ub) ==
    IF f = {} \/ d.status # "OK" THEN d
    ELSE LET shift == 1 + ctz64(f)      \* ffsll(f)
         IN kernelDeliverSpikesFrom(
                kernelDeliverSpikesOne(d, cm, source, delay + shift, ub),
                cm, source, ShiftRight(f, shift), delay + shift, ub)

RECURSIVE kernelDeliverSpikesLoop(_, _, _, _)
kernelDeliverSpikesLoop(d, k, source, ub) ==
    IF source >= k.m_neuronCount \/ d.status # "OK" THEN d
    ELSE kernelDeliverSpikesLoop(
            kernelDeliverSpikesFrom(d, k.m_cm, source,
                k.m_recentFiring[source] \cap validSpikes(k.m_cm), 0, ub),
            k, source + 1, ub)

\* Network::deliverSpikes after its startSimulation: clear the currents, deliver
kernelDeliverSpikes(k, ub) ==
    kernelDeliverSpikesLoop(
        [status |-> "OK", current |-> [i \in DOMAIN k.m_current |-> 0]], k, 0, ub)

\* the body of the loop of Network::updateRange for neuron n
kernelUpdateNeuron(k, fstim, n) ==
    LET noisy == k.m_sigma[n] # 0
        current == (k.m_current[n] * VScale) \div (2 ^ WeightFracBits)
                   + (IF noisy THEN k.m_sigma[n] * rngGaussian(k.m_rng) * VScale ELSE 0)
        st == substeps([v |-> k.m_v[n], u |-> k.m_u[n], fired |-> FALSE],
                       k.m_a[n], k.m_b[n], current, 0)
        fired == firedOrForced(st.fired, n \in fstim)
    IN [k EXCEPT
          !.m_rng = IF noisy THEN rngNext(@) ELSE @,
          !.m_pfired[n] = fired,
          !.m_recentFiring[n] = shiftHistory(@, fired),
          !.m_v[n] = IF fired THEN k.m_c[n] ELSE st.v,
          !.m_u[n] = IF fired THEN st.u + k.m_d[n] ELSE st.u]

\* Network::updateRange
RECURSIVE kernelUpdateRange(_, _, _, _)
kernelUpdateRange(k, start, end, fstim) ==
    IF start >= end THEN k
    ELSE kernelUpdateRange(kernelUpdateNeuron(k, fstim, start), start + 1, end, fstim)

\* Network::step, single-threaded build: startSimulation, deliverSpikes,
\* update (updateRange over all neurons, m_cycle++); their own calls of
\* startSimulation repeat the first
kernelStep(k, fstim, endFirst, ub) ==
    LET s0 == kernelStartSimulation(k, endFirst)
        k0 == s0.net
        d == kernelDeliverSpikes(k0, ub)
        k1 == [k0 EXCEPT !.m_current = d.current]
        k2 == kernelUpdateRange(k1, 0, k1.m_neuronCount, fstim)
    IN IF s0.status # "OK" THEN s0
       \* a finalize that threw has left the runtime vectors empty:
       \* m_recentFiring[0] reads through the null pointer of an empty vector
       ELSE IF k0.m_neuronCount > Cardinality(DOMAIN k0.m_recentFiring)
          THEN [status |-> "Segfault", net |-> k0]
       ELSE IF d.status # "OK" THEN [status |-> d.status, net |-> k1]
       ELSE [status |-> "OK", net |-> [k2 EXCEPT !.m_cycle = @ + 1]]

---------------------------------------------------------------------------
(* RuntimeData of the CUDA simulation: the data moves to the device once *)

\* RuntimeData::RuntimeData, with one plastic synapse added to its matrix;
\* moved counts the executions of the body of moveToDevice
NewRuntimeData ==
    [m_deviceDirty |-> TRUE,
     m_cycle       |-> 0,
     moved         |-> 0,
     m_cm          |-> cudaAddSynapse(NewCudaConnectivityMatrix(2, TRUE),
                                      0, 0, 1, 0, 1, Strong, 1).cm]

\* RuntimeData::moveToDevice
rtMoveToDevice(rt) ==
    IF rt.m_deviceDirty
        THEN [rt EXCEPT !.m_cm = cudaMoveToDevice(@),
                        !.moved = @ + 1,
                        !.m_deviceDirty = FALSE]
        ELSE rt

\* RuntimeData::startSimulation
rtStartSimulation(rt) == IF rt.m_deviceDirty THEN rtMoveToDevice(rt) ELSE rt

\* RuntimeData::stepSimulation; the device kernel may accumulate a weight
\* change delta for the plastic synapse
rtStepSimulation(rt, delta) ==
    LET s == rtStartSimulation(rt)
    IN [s EXCEPT !.m_cycle = @ + 1,
                 !.m_cm = IF delta = 0 THEN @ ELSE cudaAccumulate(@, 0, 1, delta)]

\* RuntimeData::applyStdp
rtApplyStdp(rt, fn, reward) ==
    IF rt.m_deviceDirty THEN rt
    ELSE IF ~fn.enabled THEN rt
    ELSE IF reward = 0 THEN [rt EXCEPT !.m_cm = cudaClearStdpAccumulator(@)]
    ELSE [rt EXCEPT !.m_cm = applyStdpKernel(@, reward, fn)]

---------------------------------------------------------------------------
(* The simulation, driven through its API *)

NoDelivery(s) == [calls |-> <<>>, current |-> s.m_current, start |-> s.m_current]

\* the status Simulation::Simulation ends with
constructionStatus(n, c) == setConnectivityMatrix(NewConnectivityMatrix(c.fbits), n).status

InitOf(sc, c) ==
    /\ net = sc.net
    /\ conf = c
    /\ sim = NewSimulation(net, conf)
    /\ sim2 = sim
    /\ status = constructionStatus(net, conf)
    /\ lastOp = [op |-> "create", arg |-> <<>>]
    /\ steps = 0
    /\ firedLog = <<>>
    /\ delivered = NoDelivery(sim)
    /\ bcm = NewConnectivityMatrix(conf.fbits)
    /\ gcm = NewCudaConnectivityMatrix(2, TRUE)
    /\ out = <<>>
    /\ knet = NewKernelNetwork
    /\ csim = NewCudaSimulation
    /\ readMark = 0
    /\ rtdata = NewRuntimeData

Init == \E sc \in Scenarios : \E c \in Configurations(sc.fbits) : InitOf(sc, c)

\* the number of steps a run takes: every delay slot of the network expires
RunLength == sim.m_cm.m_maxDelay + TailSteps

FiredSet(s) == {l \in DOMAIN s.m_fired : s.m_fired[l]}

\* step(fstim)
Step(fstim, sched) ==
    /\ steps < RunLength
    /\ fstim # <<>> => steps < StimWindow
    /\ \E r \in {stepWithStimulus(sim, fstim, sched, net)} :
          /\ sim' = r.sim
          /\ status' = r.status
          /\ delivered' = [calls |-> r.calls, current |-> r.current,
                           start |-> sim.m_current]
          /\ firedLog' = Append(firedLog, IF r.ran THEN FiredSet(r.sim) ELSE {})
    /\ lastOp' = [op |-> "step", arg |-> fstim]
    /\ steps' = steps + 1
    /\ out' = <<>>
    /\ UNCHANGED <<rtdata, readMark, csim, knet, conf, net, sim2, bcm, gcm>>

\* readFiring
ReadFiring ==
    /\ steps <= CallWindow
    /\ LET r == readFiring(sim)
       IN /\ sim' = r.sim
          /\ out' = [ret |-> r.ret, cycles |-> r.sim.m_firedCycleExt,
                     nidx |-> r.sim.m_firedNeuronExt]
    /\ status' = "OK"
    /\ lastOp' = [op |-> "readFiring", arg |-> <<>>]
    /\ readMark' = steps
    /\ UNCHANGED <<rtdata, csim, knet, conf, net, sim2, steps, firedLog, delivered, bcm, gcm>>

\* flushFiringBuffer
FlushFiringBuffer ==
    /\ steps <= CallWindow
    /\ sim' = flushFiringBuffer(sim)
    /\ status' = "OK"
    /\ lastOp' = [op |-> "flushFiringBuffer", arg |-> <<>>]
    /\ UNCHANGED <<rtdata, readMark, csim, knet, conf, net, sim2, steps, firedLog, delivered, bcm, gcm, out>>

\* applyStdp(reward)
ApplyStdp(reward) ==
    /\ steps <= CallWindow + 1
    /\ LET r == applyStdp(sim, reward)
       IN /\ sim' = r.sim
          /\ status' = r.status
    /\ lastOp' = [op |-> "applyStdp", arg |-> <<reward>>]
    /\ UNCHANGED <<rtdata, readMark, csim, knet, conf, net, sim2, steps, firedLog, delivered, bcm, gcm, out>>

\* getSynapses(source)
GetSynapses(source) ==
    /\ steps <= CallWindow + 1
    /\ LET r == getSynapses(sim, source, net)
       IN /\ out' = r
          /\ status' = r.status
    /\ lastOp' = [op |-> "getSynapses", arg |-> <<source>>]
    /\ UNCHANGED <<rtdata, readMark, csim, knet, conf, net, sim, sim2, steps, firedLog, delivered, bcm, gcm>>

Next ==
    \/ \E fstim \in Stimuli(net), sched \in Schedules(sim) : Step(fstim, sched)
    \/ ReadFiring
    \/ FlushFiringBuffer
    \/ \E reward \in {0, 1} : ApplyStdp(reward)
    \/ \E source \in net.m_neurons : GetSynapses(source)

Spec == Init /\ [][Next]_vars

---------------------------------------------------------------------------
(* Two simulations of one network, as the tests run them: step, then
   readFiring, the same stimulus given to both *)

StepPair(fstim, sched1, sched2) ==
    /\ steps < RunLength
    /\ fstim # <<>> => steps < StimWindow
    /\ status = "OK"
    /\ \E r1 \in {stepWithStimulus(sim, fstim, sched1, net)},
          r2 \in {stepWithStimulus(sim2, fstim, sched2, net)} :
          /\ sim' = IF r1.status = "OK" THEN readFiring(r1.sim).sim ELSE r1.sim
          /\ sim2' = IF r2.status = "OK" THEN readFiring(r2.sim).sim ELSE r2.sim
          /\ status' = r1.status
          /\ out' = [status2 |-> r2.status]
          /\ delivered' = [calls |-> r1.calls, current |-> r1.current,
                           start |-> sim.m_current]
          /\ firedLog' = Append(firedLog, IF r1.ran THEN FiredSet(r1.sim) ELSE {})
    /\ lastOp' = [op |-> "stepPair", arg |-> <<fstim, sched1, sched2>>]
    /\ steps' = steps + 1
    /\ UNCHANGED <<rtdata, readMark, csim, knet, conf, net, bcm, gcm>>

NextDet ==
    \E fstim \in Stimuli(net), sched1 \in Schedules(sim), sched2 \in Schedules(sim2) :
        StepPair(fstim, sched1, sched2)

SpecDet == Init /\ [][NextDet]_vars

---------------------------------------------------------------------------
(* Construction of the connectivity matrices *)

Delays == {0, 1, MAX_DELAY, MAX_DELAY + 1}

Bundles(n) ==
    {<<Terminal(maxNeuronIndex(n), Weak, 0)>>,
     <<Terminal(minNeuronIndex(n), Unit, 1), Terminal(maxNeuronIndex(n), Strong, 0)>>}

\* the number of synapses held by the CUDA matrix
RECURSIVE CountSynapses(_, _)
CountSynapses(fcm, keys) ==
    IF keys = {} THEN 0
    ELSE LET k == CHOOSE x \in keys : TRUE
         IN Len(fcm[k]) + CountSynapses(fcm, keys \ {k})

CudaSynapseCount == CountSynapses(gcm.mh_fcm, DOMAIN gcm.mh_fcm)

Built == Cardinality(DOMAIN bcm.m_acc) + CudaSynapseCount

\* ConnectivityMatrix::setRow on the generic matrix
SetRow(source, delay, ss) ==
    /\ Built < MaxRows
    /\ \E r \in {setRow(bcm, source, delay, ss, net)} :
          /\ bcm' = r.cm
          /\ status' = r.status
    /\ lastOp' = [op |-> "setRow", arg |-> <<source, delay>>]
    /\ UNCHANGED <<rtdata, readMark, csim, knet, conf, net, sim, sim2, steps, firedLog, delivered, gcm, out>>

\* ConnectivityMatrix::addSynapse on the CUDA matrix
CudaAddSynapse(sn, delay, tn, w, plastic) ==
    /\ Built < MaxRows
    /\ \E r \in {cudaAddSynapse(gcm, 0, sn, delay, 0, tn, w, plastic)} :
          /\ gcm' = r.cm
          /\ status' = r.status
    /\ lastOp' = [op |-> "addSynapse", arg |-> <<sn, delay>>]
    /\ UNCHANGED <<rtdata, readMark, csim, knet, conf, net, sim, sim2, steps, firedLog, delivered, bcm, out>>

\* the batches given to addSynapses: targets, delays, weights, plastic flags
Batches ==
    {[targets |-> <<>>, delays |-> <<>>, weights |-> <<>>, plastic |-> <<>>],
     [targets |-> <<1, 0>>, delays |-> <<1, 2>>, weights |-> <<Weak, Unit>>,
      plastic |-> <<1, 0>>],
     [targets |-> <<1, 0>>, delays |-> <<1, 0>>, weights |-> <<Weak, Unit>>,
      plastic |-> <<1, 0>>],
     [targets |-> <<1, 0>>, delays |-> <<MAX_DELAY, MAX_DELAY + 1>>,
      weights |-> <<Weak, Unit>>, plastic |-> <<0, 1>>],
     [targets |-> <<1, 0>>, delays |-> <<1>>, weights |-> <<Weak, Unit>>,
      plastic |-> <<1, 0>>],
     [targets |-> <<1>>, delays |-> <<1>>, weights |-> <<Weak>>, plastic |-> <<>>],
     [targets |-> <<1>>, delays |-> <<1, 2>>, weights |-> <<Weak>>, plastic |-> <<1>>]}

\* what a read past the end of a vector may find
Junk == [delay : {0, 1}, weight : {Unit}, plastic : {0, 1}]

EqualLengths(b) ==
    /\ Len(b.targets) = Len(b.delays)
    /\ Len(b.targets) = Len(b.weights)
    /\ Len(b.targets) = Len(b.plastic)

\* ConnectivityMatrix::addSynapses on the CUDA matrix
CudaAddSynapses(src, b, junk) ==
    /\ Built + Len(b.targets) <= MaxRows
    /\ \E r \in {cudaAddSynapses(gcm, src, b.targets, b.delays, b.weights,
                                 b.plastic, junk)} :
          /\ gcm' = r.cm
          /\ status' = r.status
    /\ lastOp' = [op |-> "addSynapses", arg |-> <<src, b>>]
    /\ UNCHANGED <<rtdata, readMark, csim, knet, conf, net, sim, sim2, steps, firedLog, delivered, bcm, out>>

\* ConnectivityMatrix::moveToDevice, as far as the fixed-point format goes
CudaMoveToDevice ==
    /\ gcm' = cudaMoveToDevice(gcm)
    /\ status' = "OK"
    /\ lastOp' = [op |-> "moveToDevice", arg |-> <<gcm.m_fractionalBits>>]
    /\ UNCHANGED <<rtdata, readMark, csim, knet, conf, net, sim, sim2, steps, firedLog, delivered, bcm, out>>

\* ConnectivityMatrix::fractionalBits on the CUDA matrix
CudaFractionalBits ==
    /\ out' = cudaFractionalBits(gcm)
    /\ status' = IF out'.kind = "return" THEN "OK" ELSE "Error"
    /\ lastOp' = [op |-> "fractionalBits", arg |-> <<gcm.m_fractionalBits>>]
    /\ UNCHANGED <<rtdata, readMark, csim, knet, conf, net, sim, sim2, steps, firedLog, delivered, bcm, gcm>>

\* the generic matrix constructed from a configuration
NewMatrixOf(fractionalBitsSet) ==
    /\ out' = NewConnectivityMatrixOf(fractionalBitsSet, conf.fbits)
    /\ status' = IF out'.kind = "return" THEN "OK" ELSE "Error"
    /\ lastOp' = [op |-> "ConnectivityMatrix", arg |-> <<fractionalBitsSet>>]
    /\ UNCHANGED <<rtdata, readMark, csim, knet, conf, net, sim, sim2, steps, firedLog, delivered, bcm, gcm>>

NextBuild ==
    \/ CudaMoveToDevice
    \/ CudaFractionalBits
    \/ \E b \in BOOLEAN : NewMatrixOf(b)
    \/ \E source \in Locals(net), delay \in Delays, ss \in Bundles(net) :
          SetRow(source, delay, ss)
    \/ \E sn \in {0, 1}, delay \in Delays, w \in {Weak, -Strong}, plastic \in {0, 1} :
          CudaAddSynapse(sn, delay, 1 - sn, w, plastic)
    \/ \E src \in {0, 1}, b \in Batches, junk \in Junk :
          CudaAddSynapses(src, b, junk)

\* construction does not depend on the threads and the shifts of the build
InitBuild ==
    \E sc \in {x \in Scenarios : x.net.m_neurons = {0, 1}} : \E nd \in BOOLEAN :
        InitOf(sc, [multithreaded |-> FALSE, threads |-> 1, stdp |-> FALSE,
                    fbits |-> sc.fbits, shiftWraps |-> FALSE, ndebug |-> nd])

SpecBuild == InitBuild /\ [][NextBuild]_vars

---------------------------------------------------------------------------
(* The kernel network, built neuron by neuron and row by row, then stepped *)

\* the process is gone after an abort or a crash
KernelAlive == status \notin {"Abort", "Segfault"}

\* the neurons given to addNeuron: neuron 0 is given one of two that differ
\* in every parameter
KernelNeurons(idx) ==
    {Neuron(0)} \cup
    (IF idx = 0
        THEN {[a |-> 10, b |-> 25, c |-> -50, d |-> 2, u |-> -10, v |-> -60, sigma |-> 1]}
        ELSE {})

\* the row given to addSynapses
KernelRows == {<<Terminal(0, Weak, 0), Terminal(1, Strong, 0)>>}

\* what m_acc.end()->first may read
EndFirst == 0 .. (MaxNeuronIndex + 1)

\* Network::addNeuron
KernelAddNeuron(idx, neuron) ==
    /\ KernelAlive
    /\ \E r \in {kernelAddNeuron(knet, idx, neuron)} :
          /\ knet' = r.net
          /\ status' = r.status
    /\ lastOp' = [op |-> "addNeuron", arg |-> <<idx>>]
    /\ UNCHANGED <<rtdata, readMark, csim, conf, net, sim, sim2, steps, firedLog, delivered, bcm, gcm, out>>

\* Network::addSynapses
KernelAddSynapses(source, delay, ss) ==
    /\ KernelAlive
    /\ Cardinality(DOMAIN knet.m_cm.m_acc) < MaxRows
    /\ \E r \in {kernelAddSynapses(knet, source, delay, ss)} :
          /\ knet' = r.net
          /\ status' = r.status
    /\ lastOp' = [op |-> "addSynapses", arg |-> <<source, delay>>]
    /\ UNCHANGED <<rtdata, readMark, csim, conf, net, sim, sim2, steps, firedLog, delivered, bcm, gcm, out>>

\* Network::startSimulation
KernelStartSimulation(endFirst) ==
    /\ KernelAlive
    /\ knet.m_constructing \/ endFirst = 0     \* read by a first finalize only
    /\ \E r \in {kernelStartSimulation(knet, endFirst)} :
          /\ knet' = r.net
          /\ status' = r.status
    /\ lastOp' = [op |-> "startSimulation", arg |-> <<>>]
    /\ UNCHANGED <<rtdata, readMark, csim, conf, net, sim, sim2, steps, firedLog, delivered, bcm, gcm, out>>

\* Network::step
KernelStep(fstim, endFirst, ub) ==
    /\ KernelAlive
    /\ knet.m_cycle < MaxKernelSteps
    /\ knet.m_constructing \/ endFirst = 0     \* read by a first finalize only
    /\ \E r \in {kernelStep(knet, fstim, endFirst, ub)} :
          /\ knet' = r.net
          /\ status' = r.status
    /\ lastOp' = [op |-> "step", arg |-> fstim]
    /\ UNCHANGED <<rtdata, readMark, csim, conf, net, sim, sim2, steps, firedLog, delivered, bcm, gcm, out>>

NextKernel ==
    \/ \E idx \in 0 .. MaxNeuronIndex : \E neuron \in KernelNeurons(idx) :
          KernelAddNeuron(idx, neuron)
    \/ \E delay \in {0, 1, 2}, ss \in KernelRows : KernelAddSynapses(0, delay, ss)
    \/ \E endFirst \in EndFirst : KernelStartSimulation(endFirst)
    \/ \E fstim \in {{}, {0}}, endFirst \in EndFirst, ub \in {"OK", "Segfault"} :
          KernelStep(fstim, endFirst, ub)

InitKernel ==
    \E sc \in {x \in Scenarios : x.net.m_neurons = {0, 1}} : \E nd \in BOOLEAN :
        InitOf(sc, [multithreaded |-> FALSE, threads |-> 1, stdp |-> FALSE,
                    fbits |-> sc.fbits, shiftWraps |-> FALSE, ndebug |-> nd])

SpecKernel == InitKernel /\ [][NextKernel]_vars

---------------------------------------------------------------------------
(* Networks whose synapses name neurons that were never added *)

DanglingScenarios ==
    { \* a target inside the index range that was never added
      [net |-> Network({0, 2}, 0, << <<0, 1, 1, Strong, 0>>, <<0, 2, 1, Weak, 0>> >>),
       fbits |-> 0],
      \* a target beyond the index range
      [net |-> Network({0, 1}, 0, << <<0, 5, 1, Strong, 0>> >>), fbits |-> 0],
      \* a source beyond the index range
      [net |-> Network({0, 1}, 0, << <<3, 0, 1, Strong, 0>>, <<0, 1, 1, Strong, 0>> >>),
       fbits |-> 0] }

\* some synapse of the network names a neuron that was never added
Dangling(n) ==
    \E i \in DOMAIN n.synapses :
        n.synapses[i][1] \notin n.m_neurons \/ n.synapses[i][2] \notin n.m_neurons

InitDangling ==
    \E sc \in DanglingScenarios : \E nd \in BOOLEAN :
        InitOf(sc, [multithreaded |-> FALSE, threads |-> 1, stdp |-> FALSE,
                    fbits |-> sc.fbits, shiftWraps |-> FALSE, ndebug |-> nd])

SpecDangling == InitDangling /\ [][Next]_vars

---------------------------------------------------------------------------
(* STDP on the CUDA matrix: accumulate, then apply with a reward *)

\* the STDP function of the configuration and its weight limits
StdpFn == [enabled |-> conf.stdp, minWeight |-> -(Strong + Unit),
           maxWeight |-> Weak + Unit]

\* some accumulator holds a weight change that has not been applied
Pending(cm) ==
    \E tp \in DOMAIN cm.m_rsynapses : \E i \in DOMAIN cm.m_rsynapses[tp] :
        cm.m_rsynapses[tp][i].stdp # 0

\* a step with STDP enabled adds a weight change to a plastic synapse
CudaAccumulate(tp, i, delta) ==
    /\ conf.stdp
    /\ steps < MaxCudaCalls
    /\ tp \in DOMAIN gcm.m_rsynapses
    /\ i \in DOMAIN gcm.m_rsynapses[tp]
    /\ gcm' = cudaAccumulate(gcm, tp, i, delta)
    /\ status' = "OK"
    /\ steps' = steps + 1
    /\ lastOp' = [op |-> "accumulate", arg |-> <<tp, i, delta>>]
    /\ UNCHANGED <<rtdata, readMark, csim, knet, conf, net, sim, sim2, firedLog, delivered, bcm, out>>

\* applyStdp(reward) of the CUDA simulation
CudaApplyStdp(reward) ==
    /\ steps < MaxCudaCalls
    /\ gcm' = cudaApplyStdp(gcm, StdpFn, reward)
    /\ status' = "OK"
    /\ steps' = steps + 1
    /\ out' = [pending |-> Pending(gcm),
               afterClear |-> /\ lastOp.op = "cudaApplyStdp"
                              /\ lastOp.arg = <<0>>
                              /\ out.pending]
    /\ lastOp' = [op |-> "cudaApplyStdp", arg |-> <<reward>>]
    /\ UNCHANGED <<rtdata, readMark, csim, knet, conf, net, sim, sim2, firedLog, delivered, bcm>>

\* step of the CUDA simulation; the device succeeds or reports an error
CudaStep(device) ==
    /\ steps < MaxCudaCalls
    /\ \E r \in {cudaStep(csim, device)} :
          /\ csim' = r.sim
          /\ status' = r.status
    /\ steps' = steps + 1
    /\ lastOp' = [op |-> "cudaStep", arg |-> <<device>>]
    /\ UNCHANGED <<rtdata, readMark, knet, conf, net, sim, sim2, firedLog, delivered, bcm, gcm, out>>

\* resetTimer of the CUDA simulation
CudaResetTimer ==
    /\ steps < MaxCudaCalls
    /\ csim' = cudaResetTimer(csim)
    /\ status' = "OK"
    /\ steps' = steps + 1
    /\ lastOp' = [op |-> "cudaResetTimer", arg |-> <<>>]
    /\ UNCHANGED <<rtdata, readMark, knet, conf, net, sim, sim2, firedLog, delivered, bcm, gcm, out>>

NextCuda ==
    \/ \E device \in {"cudaSuccess", "cudaErrorLaunchFailure"} : CudaStep(device)
    \/ CudaResetTimer
    \/ \E w \in {Weak, -Strong}, plastic \in {0, 1} : CudaAddSynapse(0, 1, 1, w, plastic)
    \/ \E tp \in {0}, i \in 1 .. MaxRows, delta \in {Unit, -Unit} :
          CudaAccumulate(tp, i, delta)
    \/ \E reward \in {0, 1, -1} : CudaApplyStdp(reward)

InitCuda ==
    \E sc \in {x \in Scenarios : x.net.m_neurons = {0, 1}} : \E st \in BOOLEAN :
        InitOf(sc, [multithreaded |-> FALSE, threads |-> 1, stdp |-> st,
                    fbits |-> sc.fbits, shiftWraps |-> FALSE, ndebug |-> FALSE])

SpecCuda == InitCuda /\ [][NextCuda]_vars

---------------------------------------------------------------------------
(* What the network was created with, and what a run has done so far *)

\* the synapses of global source g as they were added, by ascending delay
RECURSIVE CreatedFrom(_, _)
CreatedFrom(g, ds) ==
    IF ds = <<>> THEN <<>>
    ELSE LET b == net.m_fcm[<<g, Head(ds)>>]
         IN [i \in DOMAIN b |-> [target |-> b[i].target, delay |-> Head(ds),
                                 weight |-> b[i].weight, plastic |-> b[i].plastic]]
            \o CreatedFrom(g, Tail(ds))

Created(g) == CreatedFrom(g, Ascending({k[2] : k \in {x \in DOMAIN net.m_fcm : x[1] = g}}))

Sources == {g \in net.m_neurons : Created(g) # <<>>}

\* local neuron l fired in step t of the run
FiredAt(l, t) == t >= 1 /\ t <= Len(firedLog) /\ l \in firedLog[t]

\* the fixed-point weights due at local target v in the step just taken:
\* those of the synapses (u, v, d) whose source fired d steps before it
RECURSIVE DueCurrent(_, _)
DueCurrent(v, i) ==
    IF i > Len(net.synapses) THEN 0
    ELSE LET y == net.synapses[i]
             due == /\ localIdx(net, y[2]) = v
                    /\ FiredAt(localIdx(net, y[1]), steps - y[3])
         IN Add32(IF due THEN fx_toFix(y[4], conf.fbits) ELSE 0, DueCurrent(v, i + 1))

\* the contributions the step just taken delivered to local target v,
\* summed with saturation in the order of their delivery
RECURSIVE SaturatedRow(_, _, _, _)
SaturatedRow(acc, row, v, i) ==
    IF i > Len(row) THEN acc
    ELSE SaturatedRow(IF row[i].target = v THEN Add32Saturating(acc, row[i].weight) ELSE acc,
                      row, v, i + 1)

RECURSIVE SaturatedCurrent(_, _, _)
SaturatedCurrent(acc, v, i) ==
    IF i > Len(delivered.calls) THEN acc
    ELSE SaturatedCurrent(
            SaturatedRow(acc, getRow(sim.m_cm, delivered.calls[i][1], delivered.calls[i][2]), v, 1),
            v, i + 1)

---------------------------------------------------------------------------
(* The STDP function and the firing closest to a postsynaptic firing *)

\* STDP<float>: the windows and the masks of the cycles with a non-zero
\* value; prefire[i] is zero for i in preZero, postfire[i] for i in postZero
NewSTDP(preWindow, postWindow, preZero, postZero) ==
    [m_preFireWindow  |-> preWindow,
     m_postFireWindow |-> postWindow,
     m_preFireBits    |-> {postWindow + i : i \in (0 .. preWindow - 1) \ preZero},
     m_postFireBits   |-> {postWindow - 1 - i : i \in (0 .. postWindow - 1) \ postZero}]

\* closestPreFire without the shift down to the postsynaptic firing
closestPreFireUnshifted(stdp, arrivals) ==
    LET validArrivals == arrivals \cap stdp.m_preFireBits
    IN IF validArrivals # {} THEN ctz64(validArrivals) ELSE STDP_NO_APPLICATION

\* closestPreFire. dt is computed first, but used only for a non-zero word.
closestPreFire(stdp, arrivals) ==
    LET validArrivals == arrivals \cap stdp.m_preFireBits
    IN IF validArrivals # {}
          THEN ctz64(ShiftRight(validArrivals, stdp.m_postFireWindow))
          ELSE STDP_NO_APPLICATION

\* closestPostFire
closestPostFire(stdp, arrivals) ==
    LET validArrivals == arrivals \cap stdp.m_postFireBits
    IN IF validArrivals # {}
          THEN clz64(ShiftLeft(validArrivals, WordBits - stdp.m_postFireWindow))
          ELSE STDP_NO_APPLICATION

Windows == {0, SmallWindow, WordBits - SmallWindow, WordBits}

\* the bits of the arrival words tried: around the postsynaptic firing and at
\* both ends of the word
ArrivalBits(stdp) ==
    {0, 1, stdp.m_postFireWindow - 1, stdp.m_postFireWindow,
     stdp.m_postFireWindow + 1, stdp.m_postFireWindow + 2, WordBits - 1} \cap AllOnes

ClosestPreFire(arrivals) ==
    /\ out' = [out EXCEPT !.arrivals = arrivals,
                          !.result = closestPreFire(out.stdp, arrivals)]
    /\ lastOp' = [op |-> "closestPreFire", arg |-> <<>>]
    /\ UNCHANGED <<rtdata, readMark, csim, knet, conf, net, sim, sim2, status, steps, firedLog, delivered,
                   bcm, gcm>>

ClosestPostFire(arrivals) ==
    /\ out' = [out EXCEPT !.arrivals = arrivals,
                          !.result = closestPostFire(out.stdp, arrivals)]
    /\ lastOp' = [op |-> "closestPostFire", arg |-> <<>>]
    /\ UNCHANGED <<rtdata, readMark, csim, knet, conf, net, sim, sim2, status, steps, firedLog, delivered,
                   bcm, gcm>>

NextStdp ==
    \/ \E arrivals \in SUBSET ArrivalBits(out.stdp) : ClosestPreFire(arrivals)
    \/ \E arrivals \in SUBSET ArrivalBits(out.stdp) : ClosestPostFire(arrivals)

InitStdp ==
    /\ \E sc \in {x \in Scenarios : x.net.m_neurons = {0, 1}} : \E sw \in BOOLEAN :
          /\ net = sc.net
          /\ conf = [multithreaded |-> FALSE, threads |-> 1, stdp |-> TRUE,
                     fbits |-> sc.fbits, shiftWraps |-> sw, ndebug |-> FALSE]
    /\ sim = NewSimulation(net, conf)
    /\ sim2 = sim
    /\ status = "OK"
    /\ lastOp = [op |-> "create", arg |-> <<>>]
    /\ steps = 0
    /\ firedLog = <<>>
    /\ delivered = NoDelivery(sim)
    /\ bcm = NewConnectivityMatrix(conf.fbits)
    /\ gcm = NewCudaConnectivityMatrix(2, TRUE)
    /\ \E preWindow, postWindow \in Windows : \E preZero, postZero \in SUBSET {0, 1} :
          /\ preWindow + postWindow <= WordBits
          /\ out = [stdp |-> NewSTDP(preWindow, postWindow, preZero, postZero),
                    arrivals |-> {}, result |-> STDP_NO_APPLICATION]
    /\ knet = NewKernelNetwork
    /\ csim = NewCudaSimulation
    /\ readMark = 0
    /\ rtdata = NewRuntimeData

SpecStdp == InitStdp /\ [][NextStdp]_vars

---------------------------------------------------------------------------
(* The jobs of the threads that update the neurons *)

\* Network::initThreads: the jobs m_job[0 .. nthreads - 1], here 1 .. nthreads
initThreads(ncount, nthreads) ==
    [t \in 1 .. nthreads |->
        LET i == t - 1
            jobSize == ncount \div nthreads
        IN [start |-> i * jobSize, end |-> Min({(i + 1) * jobSize, ncount})]]

\* the kernel network with ncount neurons and nthreads threads, with the
\* number of times the last update ran each neuron
NewJobs(ncount, nthreads) ==
    [m_neuronCount |-> ncount, m_nthreads |-> nthreads,
     m_job |-> initThreads(ncount, nthreads),
     m_workers |-> initWorkers(ncount, nthreads),
     updates |-> [n \in 0 .. ncount - 1 |-> 0]]

\* the updateRange calls of the threads started for the jobs
runJobs(jobs, ncount) ==
    [n \in 0 .. ncount - 1 |->
        Cardinality({t \in DOMAIN jobs : jobs[t].start <= n /\ n < jobs[t].end})]

\* Network::update in a build with PTHREADS_ENABLED
JobsUpdate ==
    /\ out' = [out EXCEPT !.updates = runJobs(out.m_job, out.m_neuronCount)]
    /\ lastOp' = [op |-> "Network::update", arg |-> <<>>]
    /\ UNCHANGED <<rtdata, readMark, csim, knet, conf, net, sim, sim2, status, steps, firedLog, delivered,
                   bcm, gcm>>

\* the thread group of Simulation::update in a build with
\* NEMO_CPU_MULTITHREADED, for more than one worker
WorkersUpdate ==
    /\ Len(out.m_workers) > 1
    /\ out' = [out EXCEPT !.updates = runJobs(out.m_workers, out.m_neuronCount)]
    /\ lastOp' = [op |-> "Simulation::update", arg |-> <<>>]
    /\ UNCHANGED <<rtdata, readMark, csim, knet, conf, net, sim, sim2, status, steps, firedLog, delivered,
                   bcm, gcm>>

NextJobs == JobsUpdate \/ WorkersUpdate

InitJobs ==
    /\ \E sc \in {x \in Scenarios : x.net.m_neurons = {0, 1}} :
          /\ net = sc.net
          /\ conf = [multithreaded |-> TRUE, threads |-> 1, stdp |-> FALSE,
                     fbits |-> sc.fbits, shiftWraps |-> FALSE, ndebug |-> FALSE]
    /\ sim = NewSimulation(net, conf)
    /\ sim2 = sim
    /\ status = "OK"
    /\ lastOp = [op |-> "create", arg |-> <<>>]
    /\ steps = 0
    /\ firedLog = <<>>
    /\ delivered = NoDelivery(sim)
    /\ bcm = NewConnectivityMatrix(conf.fbits)
    /\ gcm = NewCudaConnectivityMatrix(2, TRUE)
    /\ \E ncount \in 0 .. MaxJobNeurons, nthreads \in 1 .. MaxJobThreads :
          out = NewJobs(ncount, nthreads)
    /\ knet = NewKernelNetwork
    /\ csim = NewCudaSimulation
    /\ readMark = 0
    /\ rtdata = NewRuntimeData

SpecJobs == InitJobs /\ [][NextJobs]_vars

---------------------------------------------------------------------------
(* The C API: every call runs an operation of the library, which returns or
   throws, and turns the outcome into a status and a message *)

\* what the wrapped operation does: it returns, or throws a nemo::exception
\* with an error number, another std::exception, or something else
Returns == [kind |-> "return", errno |-> NEMO_OK, what |-> ""]
Outcomes ==
    {Returns}
      \cup {[kind |-> "nemo", errno |-> e, what |-> "nemo"] :
               e \in {NEMO_INVALID_INPUT, NEMO_UNKNOWN_ERROR}}
      \cup {[kind |-> "std", errno |-> NEMO_OK, what |-> "std"],
            [kind |-> "other", errno |-> NEMO_OK, what |-> ""]}

\* the static g_lastError and g_lastCallStatus, the value the call returned
\* (a status, or "object" / "NULL" for the constructors) and whether the
\* exception left the function
NewApi(hw) == [g_lastError |-> "", g_lastCallStatus |-> NEMO_OK, ret |-> NEMO_OK,
               escaped |-> FALSE,
               \* the Configuration behind the handle, no backend chosen yet
               m_backend |-> "none", m_cpuThreadCount |-> 0,
               \* what boost::thread::hardware_concurrency() returns, 0 if unknown
               hardware |-> hw]

\* chooseHardwareConfiguration without the test for a count below 1
chooseAsGiven(c, multithreaded, threadCount) ==
    [outcome |-> Returns,
     conf |-> [c EXCEPT !.m_backend = "cpu", !.m_cpuThreadCount = threadCount]]

\* chooseHardwareConfiguration(conf, threadCount), in a build with
\* NEMO_CPU_MULTITHREADED and in one without
chooseHardwareConfiguration(c, multithreaded, threadCount) ==
    LET c1 == [c EXCEPT !.m_backend = "cpu"]
    IN IF multithreaded
          THEN [outcome |-> Returns,
                conf |-> [c1 EXCEPT !.m_cpuThreadCount =
                            IF threadCount < 1 THEN Max({1, c.hardware})
                            ELSE threadCount]]
       ELSE IF threadCount > 1
          THEN [outcome |-> [kind |-> "nemo", errno |-> NEMO_INVALID_INPUT,
                             what |-> "nemo"],
                conf |-> c1]
       ELSE [outcome |-> Returns, conf |-> [c1 EXCEPT !.m_cpuThreadCount = 1]]

setResult(g, msg, st) == [g EXCEPT !.g_lastError = msg, !.g_lastCallStatus = st]

\* the macro CALL without its first statement
CALLKeepStatus(g, o) ==
    IF o.kind = "return" THEN g
    ELSE IF o.kind = "nemo" THEN setResult(g, o.what, o.errno)
    ELSE IF o.kind = "std" THEN setResult(g, o.what, NEMO_UNKNOWN_ERROR)
    ELSE setResult(g, "unknown exception", NEMO_UNKNOWN_ERROR)

\* the macro CALL
CALL(g, o) == CALLKeepStatus([g EXCEPT !.g_lastCallStatus = NEMO_OK], o)

\* CATCH_, CATCH, nemo_step and nemo_get_synapses: CALL, then return g_lastCallStatus
nemo_call(g, o) ==
    LET r == CALL(g, o) IN [r EXCEPT !.ret = r.g_lastCallStatus, !.escaped = FALSE]

\* nemo_set_cpu_backend: CATCH_ around Configuration::setCpuBackend
nemo_set_cpu_backend(g, multithreaded, threadCount) ==
    LET r == chooseHardwareConfiguration(g, multithreaded, threadCount)
    IN [outcome |-> r.outcome, api |-> nemo_call(r.conf, r.outcome)]

\* nemo_new_network: no try block
nemo_new_network(g, o) ==
    IF o.kind = "return" THEN [g EXCEPT !.ret = "object", !.escaped = FALSE]
    ELSE [g EXCEPT !.ret = "none", !.escaped = TRUE]

\* nemo_new_configuration: handlers for nemo::exception and std::exception
nemo_new_configuration(g, o) ==
    IF o.kind = "return" THEN [g EXCEPT !.ret = "object", !.escaped = FALSE]
    ELSE IF o.kind = "nemo"
        THEN [setResult(g, o.what, o.errno) EXCEPT !.ret = "NULL", !.escaped = FALSE]
    ELSE IF o.kind = "std"
        THEN [setResult(g, o.what, NEMO_UNKNOWN_ERROR) EXCEPT !.ret = "NULL", !.escaped = FALSE]
    ELSE [g EXCEPT !.ret = "none", !.escaped = TRUE]

\* nemo_new_simulation: handlers for everything
nemo_new_simulation(g, o) ==
    IF o.kind = "return" THEN [g EXCEPT !.ret = "object", !.escaped = FALSE]
    ELSE IF o.kind = "nemo"
        THEN [setResult(g, o.what, o.errno) EXCEPT !.ret = "NULL", !.escaped = FALSE]
    ELSE IF o.kind = "std"
        THEN [setResult(g, o.what, NEMO_UNKNOWN_ERROR) EXCEPT !.ret = "NULL", !.escaped = FALSE]
    ELSE [setResult(g, "Unknown error", NEMO_UNKNOWN_ERROR) EXCEPT !.ret = "NULL", !.escaped = FALSE]

\* what the operations behind the calls can do: `new Network` can only fail
\* to allocate (std::bad_alloc), the Configuration constructor and the
\* other operations can throw anything
Throwable(fn) ==
    IF fn = "nemo_new_network" THEN {o \in Outcomes : o.kind \in {"return", "std"}}
    ELSE Outcomes

Wrapped == {"nemo_add_synapse", "nemo_neuron_count", "nemo_get_synapses", "nemo_step"}

\* a call through the API; the process is gone once an exception has left a call
NemoNewNetwork ==
    \E o \in Throwable("nemo_new_network") : \E r \in {nemo_new_network(out, o)} :
        /\ steps < MaxApiCalls
        /\ status # "Terminated"
        /\ out' = r
        /\ status' = IF r.escaped THEN "Terminated" ELSE "OK"
        /\ steps' = steps + 1
        /\ lastOp' = [op |-> "nemo_new_network", arg |-> <<o, out>>]
        /\ UNCHANGED <<rtdata, readMark, csim, knet, conf, net, sim, sim2, firedLog, delivered, bcm, gcm>>

NemoNewConfiguration ==
    \E o \in Throwable("nemo_new_configuration") : \E r \in {nemo_new_configuration(out, o)} :
        /\ steps < MaxApiCalls
        /\ status # "Terminated"
        /\ out' = r
        /\ status' = IF r.escaped THEN "Terminated" ELSE "OK"
        /\ steps' = steps + 1
        /\ lastOp' = [op |-> "nemo_new_configuration", arg |-> <<o, out>>]
        /\ UNCHANGED <<rtdata, readMark, csim, knet, conf, net, sim, sim2, firedLog, delivered, bcm, gcm>>

NemoNewSimulation ==
    \E o \in Throwable("nemo_new_simulation") : \E r \in {nemo_new_simulation(out, o)} :
        /\ steps < MaxApiCalls
        /\ status # "Terminated"
        /\ out' = r
        /\ status' = IF r.escaped THEN "Terminated" ELSE "OK"
        /\ steps' = steps + 1
        /\ lastOp' = [op |-> "nemo_new_simulation", arg |-> <<o, out>>]
        /\ UNCHANGED <<rtdata, readMark, csim, knet, conf, net, sim, sim2, firedLog, delivered, bcm, gcm>>

NemoSetCpuBackend(threadCount) ==
    \E r \in {nemo_set_cpu_backend(out, conf.multithreaded, threadCount)} :
        /\ steps < MaxApiCalls
        /\ status # "Terminated"
        /\ out' = r.api
        /\ status' = "OK"
        /\ steps' = steps + 1
        /\ lastOp' = [op |-> "nemo_set_cpu_backend", arg |-> <<r.outcome, out, threadCount>>]
        /\ UNCHANGED <<rtdata, readMark, csim, knet, conf, net, sim, sim2, firedLog, delivered, bcm, gcm>>

NemoCall(fn) ==
    \E o \in Throwable(fn) : \E r \in {nemo_call(out, o)} :
        /\ steps < MaxApiCalls
        /\ status # "Terminated"
        /\ out' = r
        /\ status' = IF r.escaped THEN "Terminated" ELSE "OK"
        /\ steps' = steps + 1
        /\ lastOp' = [op |-> fn, arg |-> <<o, out>>]
        /\ UNCHANGED <<rtdata, readMark, csim, knet, conf, net, sim, sim2, firedLog, delivered, bcm, gcm>>

NextApi ==
    \/ NemoNewNetwork
    \/ NemoNewConfiguration
    \/ NemoNewSimulation
    \/ \E fn \in Wrapped : NemoCall(fn)
    \/ \E threadCount \in -2 .. MaxThreads : NemoSetCpuBackend(threadCount)

InitApi ==
    /\ \E sc \in {x \in Scenarios : x.net.m_neurons = {0, 1}} :
          /\ net = sc.net
          /\ \E mt \in BOOLEAN :
                conf = [multithreaded |-> mt, threads |-> 1, stdp |-> FALSE,
                        fbits |-> sc.fbits, shiftWraps |-> FALSE, ndebug |-> FALSE]
    /\ sim = NewSimulation(net, conf)
    /\ sim2 = sim
    /\ status = "OK"
    /\ lastOp = [op |-> "create", arg |-> <<>>]
    /\ steps = 0
    /\ firedLog = <<>>
    /\ delivered = NoDelivery(sim)
    /\ bcm = NewConnectivityMatrix(conf.fbits)
    /\ gcm = NewCudaConnectivityMatrix(2, TRUE)
    /\ \E hw \in 0 .. MaxHardware : out = NewApi(hw)
    /\ knet = NewKernelNetwork
    /\ csim = NewCudaSimulation
    /\ readMark = 0
    /\ rtdata = NewRuntimeData

SpecApi == InitApi /\ [][NextApi]_vars

---------------------------------------------------------------------------
(* Definitions the properties are stated with *)

\* the permutations of 1 .. n
Perms(n) == {p \in [1 .. n -> 1 .. n] : \A i, j \in 1 .. n : p[i] = p[j] => i = j}

Reversed(row) == [i \in DOMAIN row |-> row[Len(row) + 1 - i]]

\* the rows of the calls of the step just taken, delivered in the order p of
\* the calls and, if rev, from the last terminal of each row to the first
RECURSIVE DeliverInOrder(_, _, _, _)
DeliverInOrder(d, p, rev, i) ==
    IF i > Len(p) THEN d
    ELSE LET c == delivered.calls[p[i]]
             row == getRow(sim.m_cm, c[1], c[2])
         IN DeliverInOrder(addRow(d, IF rev THEN Reversed(row) ELSE row, 1), p, rev, i + 1)

\* the contributions of the step just taken to local target v
Contributions(v) ==
    {x \in (DOMAIN delivered.calls) \X (1 .. Len(net.synapses)) :
        LET c == delivered.calls[x[1]]
            row == getRow(sim.m_cm, c[1], c[2])
        IN x[2] \in DOMAIN row /\ row[x[2]].target = v}

ContributionWeight(x) ==
    getRow(sim.m_cm, delivered.calls[x[1]][1], delivered.calls[x[1]][2])[x[2]].weight

RECURSIVE SumAbs(_)
SumAbs(xs) ==
    IF xs = {} THEN 0
    ELSE LET x == CHOOSE y \in xs : TRUE
             w == ContributionWeight(x)
         IN (IF w < 0 THEN -w ELSE w) \div 4 + SumAbs(xs \ {x})

\* no order of the contributions takes a partial sum out of int32_t
NoSaturation ==
    \A v \in DOMAIN delivered.current :
        LET s0 == delivered.start[v]
        IN (IF s0 < 0 THEN -s0 ELSE s0) \div 4 + SumAbs(Contributions(v))
              < MaxInt32 \div 4 - Len(net.synapses) - 1

\* what a failing step has to leave as it was
StepState(s) ==
    <<s.m_u, s.m_v, s.m_recentFiring, s.m_current, s.m_fstim,
      s.m_firedCycle, s.m_firedNeuron, s.m_timer>>

BadDelay(d) == d < 1 \/ d > MAX_DELAY

---------------------------------------------------------------------------
(* Properties *)

\* C1: for every synapse (u, v, d) and every step t in which u fires, the
\* fixed-point weight of the synapse is added to current[v] in step t + d and
\* in no other step: the current each step delivers to v is the sum of the
\* weights of the synapses onto v whose source fired d steps earlier.
C1_DeliveredAtDelay ==
    lastOp.op = "step" =>
        \A v \in Locals(net) : delivered.current[v] = DueCurrent(v, 1)

\* C2: after any number of steps, bit k of the history word of neuron n is
\* set iff n fired k steps before the last one (bit 0: the last update), and
\* only a step changes a history word.
C2_HistoryBits ==
    \A l \in Locals(net) : \A k \in 0 .. (WordBits - 1) :
        (k \in sim.m_recentFiring[l]) <=> FiredAt(l, steps - k)

C2_OnlyUpdateShifts ==
    [][lastOp'.op # "step" => sim'.m_recentFiring = sim.m_recentFiring]_vars

C2_History == []C2_HistoryBits /\ C2_OnlyUpdateShifts

C2_Witness ==
    \E l \in Locals(net) :
        /\ (WordBits - 1) \in sim.m_recentFiring[l]
        /\ steps >= WordBits

\* C3: a neuron named in the firing stimulus of a step has bit 0 of its
\* history set and is in the fired list after the step, and the stimulus
\* buffer is clear again after the step.
C3_ForcedFiring ==
    lastOp.op = "step" =>
        /\ \A g \in Range(lastOp.arg) :
              /\ 0 \in sim.m_recentFiring[localIdx(net, g)]
              /\ sim.m_fired[localIdx(net, g)]
              /\ \E i \in DOMAIN sim.m_firedNeuron : sim.m_firedNeuron[i] = g
        /\ \A l \in Locals(net) : ~sim.m_fstim[l]

\* C4: a spike is delivered through every delay from 1 to maxDelay (64
\* included) and through no other: each delivery of a step is for a delay d
\* in [1, maxDelay] of a source that fired d steps earlier, each such firing
\* with synapses of delay d is delivered, and older firings stay in the history.
C4_DelayBoundary ==
    lastOp.op = "step" =>
        /\ \A i \in DOMAIN delivered.calls :
              /\ delivered.calls[i][2] \in 1 .. sim.m_cm.m_maxDelay
              /\ FiredAt(delivered.calls[i][1], steps - delivered.calls[i][2])
        /\ \A l \in DOMAIN sim.m_cm.m_delays : \A d \in sim.m_cm.m_delays[l] :
              (d <= MAX_DELAY /\ FiredAt(l, steps - d))
                  => <<l, d>> \in Range(delivered.calls)
        /\ \A l \in Locals(net) : \A k \in sim.m_cm.m_maxDelay .. (WordBits - 1) :
              FiredAt(l, steps - k) => k \in sim.m_recentFiring[l]

\* C5 as stated: the weight the matrix reports for a non-plastic synapse is
\* the weight the synapse was created with, in every state of a run.
C5_WeightAsCreated ==
    \A g \in Sources :
        LET r == cmGetSynapses(sim.m_cm, localIdx(net, g))
        IN /\ r.status = "OK"
           /\ Len(r.weights) = Len(Created(g))
           /\ \A i \in DOMAIN r.weights :
                 Created(g)[i].plastic = 0 => r.weights[i] = Created(g)[i].weight

\* C5 amended: the weight the matrix reports for a non-plastic synapse is, in
\* every state of a run of step and applyStdp calls, the created weight
\* converted to the fixed-point format of the matrix and back; no call
\* changes the matrix.
C5_WeightAsStored ==
    \A g \in Sources :
        LET r == cmGetSynapses(sim.m_cm, localIdx(net, g))
        IN /\ r.status = "OK"
           /\ Len(r.weights) = Len(Created(g))
           /\ \A i \in DOMAIN r.weights :
                 Created(g)[i].plastic = 0 =>
                    r.weights[i] = fx_toFloat(fx_toFix(Created(g)[i].weight, conf.fbits),
                                              conf.fbits)

C5_MatrixReadOnly == [][sim'.m_cm = sim.m_cm]_vars

C5_Frame == []C5_WeightAsStored /\ C5_MatrixReadOnly

C5_Witness ==
    /\ lastOp.op = "applyStdp"
    /\ lastOp.arg = <<1>>
    /\ delivered.calls # <<>>
    /\ \E g \in Sources : \E i \in DOMAIN Created(g) :
          /\ Created(g)[i].plastic = 0
          /\ fx_toFloat(fx_toFix(Created(g)[i].weight, conf.fbits), conf.fbits)
                # Created(g)[i].weight

\* C6: a step that fails leaves u, v, the histories, the currents, the
\* stimulus buffer, the firing buffers and the elapsed time as they were.
C6_FailedStepNoEffect ==
    [][(lastOp'.op = "step" /\ status' # "OK") => StepState(sim') = StepState(sim)]_vars

\* C7: adding a row or a synapse with a delay below 1 or above MAX_DELAY
\* fails (with InvalidInput for setRow) and leaves the matrix as it was.
C7_InvalidDelayRejected ==
    [][/\ (lastOp'.op = "setRow" /\ BadDelay(lastOp'.arg[2]))
            => (status' = "InvalidInput" /\ bcm' = bcm)
       /\ (lastOp'.op = "addSynapse" /\ BadDelay(lastOp'.arg[2]))
            => (status' # "OK" /\ gcm' = gcm)]_vars

\* C8: the current a step accumulates at a target is the saturating sum of
\* the contributions delivered to it; it never wraps around.
C8_SaturatingAdd ==
    lastOp.op = "step" =>
        \A v \in Locals(net) : delivered.current[v] = SaturatedCurrent(0, v, 1)

\* C9: two simulations of one network and configuration, given the same
\* stimuli, report the same firings, whatever order their workers run in.
C9_Determinism ==
    lastOp.op = "stepPair" =>
        /\ status = out.status2
        /\ sim.m_firedCycleExt = sim2.m_firedCycleExt
        /\ sim.m_firedNeuronExt = sim2.m_firedNeuronExt
        /\ sim.m_firedCycle = sim2.m_firedCycle
        /\ sim.m_firedNeuron = sim2.m_firedNeuron

C9_Witness ==
    /\ lastOp.op = "stepPair"
    /\ lastOp.arg[2] # lastOp.arg[3]
    /\ steps >= 2
    /\ sim.m_firedNeuronExt # <<>>
    /\ \A l \in Locals(net) : sim.m_sigma[l] # 0

\* C10: getSynapses returns, for the synapses of a source, the targets,
\* delays and plastic flags they were added with, every delay in [1, MAX_DELAY].
C10_RoundTrip ==
    (lastOp.op = "getSynapses" /\ lastOp.arg[1] \in Sources) =>
        LET c == Created(lastOp.arg[1])
        IN /\ status = "OK"
           /\ out.targets = [i \in DOMAIN c |-> c[i].target]
           /\ out.delays = [i \in DOMAIN c |-> c[i].delay]
           /\ out.plastic = [i \in DOMAIN c |-> c[i].plastic]
           /\ \A i \in DOMAIN out.delays : out.delays[i] \in 1 .. MAX_DELAY

\* C12: applyStdp on a simulation with no STDP function configured returns
\* normally, for every reward, and changes nothing.
C12_NoStdpNoOp ==
    (lastOp.op = "applyStdp" /\ ~conf.stdp) => status = "OK"

\* C11: applyStdp(0) changes no weight and leaves every accumulator zero, so
\* an applyStdp(r) that follows it with no step in between changes no weight.
C11_ClearStdp ==
    [][/\ (lastOp'.op = "cudaApplyStdp" /\ lastOp'.arg = <<0>>) =>
             (gcm'.mh_fcm = gcm.mh_fcm /\ ~Pending(gcm'))
       /\ (/\ lastOp.op = "cudaApplyStdp" /\ lastOp.arg = <<0>>
           /\ lastOp'.op = "cudaApplyStdp") => gcm'.mh_fcm = gcm.mh_fcm]_vars

\* an accumulated change was cleared by applyStdp(0), then applyStdp(1) ran
C11_Witness ==
    /\ conf.stdp
    /\ lastOp.op = "cudaApplyStdp" /\ lastOp.arg = <<1>>
    /\ out.afterClear

\* C13: a failing batched addSynapses adds none of the batch's synapses to
\* the forward matrix, the reverse matrix or the outgoing table.
C13_BatchAtomic ==
    [][(/\ lastOp'.op = "addSynapses"
        /\ EqualLengths(lastOp'.arg[2])
        /\ status' # "OK") => gcm' = gcm]_vars

\* C14: a batched addSynapses whose vectors differ in length is reported as
\* InvalidInput and adds no synapse.
C14_LengthsChecked ==
    [][(lastOp'.op = "addSynapses" /\ ~EqualLengths(lastOp'.arg[2])) =>
          (status' = "InvalidInput" /\ gcm' = gcm)]_vars

\* the plastic synapses of the forward matrix onto partition tp, each as
\* <<source partition, source neuron, delay, index in its bundle, target>>
PlasticForward(tp) ==
    {<<k[1], k[2], k[4], i - 1, gcm.mh_fcm[k][i].target>> :
        <<k, i>> \in {x \in (DOMAIN gcm.mh_fcm) \X (1 .. MaxRows + 1) :
                        /\ x[1][3] = tp
                        /\ x[2] \in DOMAIN gcm.mh_fcm[x[1]]
                        /\ gcm.mh_fcm[x[1]][x[2]].plastic # 0}}

ReverseEntries(tp) ==
    IF tp \in DOMAIN gcm.m_rsynapses THEN gcm.m_rsynapses[tp] ELSE <<>>

\* C19: with reverse indexing enabled the reverse matrix of every target
\* holds exactly one entry per plastic synapse onto it, with the synapse's
\* source, delay and index in its forward bundle, and none for a static one.
C19_ReverseMatrix ==
    \A tp \in {k[3] : k \in DOMAIN gcm.mh_fcm} \cup DOMAIN gcm.m_rsynapses :
        LET rs == ReverseEntries(tp)
        IN /\ {<<rs[i].sp, rs[i].sn, rs[i].delay, rs[i].sidx, rs[i].tn>> : i \in DOMAIN rs}
                 = PlasticForward(tp)
           /\ Len(rs) = Cardinality(PlasticForward(tp))

\* a plastic synapse was added behind a static one of the same bundle
C19_Witness ==
    /\ gcm.m_setReverse
    /\ \E tp \in DOMAIN gcm.m_rsynapses : \E i \in DOMAIN gcm.m_rsynapses[tp] :
          LET e == gcm.m_rsynapses[tp][i]
          IN /\ e.sidx = 1
             /\ gcm.mh_fcm[<<e.sp, e.sn, tp, e.delay>>][1].plastic = 0

\* C20: the i-th terminal of the finalized row of a (source, delay) is the
\* i-th synapse given for it, and getSynapses reports the synapses of a
\* source by ascending delay, in that order inside each delay.
C20_InsertionOrder ==
    /\ \A k \in DOMAIN net.m_fcm :
          LET b == net.m_fcm[k]
              row == getRow(sim.m_cm, localIdx(net, k[1]), k[2])
          IN /\ Len(row) = Len(b)
             /\ \A i \in DOMAIN b :
                   /\ row[i].target = localIdx(net, b[i].target)
                   /\ row[i].weight = fx_toFix(b[i].weight, conf.fbits)
    /\ (/\ lastOp.op = "getSynapses"
        /\ lastOp.arg[1] \in Locals(net)
        /\ globalIdx(net, lastOp.arg[1]) \in Sources) =>
          LET c == Created(globalIdx(net, lastOp.arg[1]))
          IN /\ status = "OK"
             /\ out.targets = [i \in DOMAIN c |-> c[i].target]
             /\ out.delays = [i \in DOMAIN c |-> c[i].delay]
             /\ \A i \in 1 .. (Len(out.delays) - 1) : out.delays[i] <= out.delays[i + 1]

\* getSynapses answered for a source that has a row of two different
\* terminals and whose synapses were not given by ascending delay
C20_Witness ==
    /\ lastOp.op = "getSynapses"
    /\ status = "OK"
    /\ \E k \in DOMAIN net.m_fcm :
          /\ localIdx(net, k[1]) = lastOp.arg[1]
          /\ Len(net.m_fcm[k]) >= 2
          /\ net.m_fcm[k][1] # net.m_fcm[k][2]
    /\ \E i \in 1 .. (Len(net.synapses) - 1) :
          /\ net.synapses[i][1] = net.synapses[i + 1][1]
          /\ net.synapses[i][3] > net.synapses[i + 1][3]
    /\ Cardinality(Range(out.delays)) >= 3

\* C16: building the runtime matrix of a network in which a synapse names a
\* source or a target that was never added fails with InvalidInput.
C16_ReferencesVerified ==
    (lastOp.op = "create" /\ Dangling(net)) => status = "InvalidInput"

\* C15: addNeuron with an index that is already present fails with
\* InvalidInput and leaves the stored neuron and the neuron count as they were.
C15_DuplicateRejected ==
    [][(/\ lastOp'.op = "addNeuron"
        /\ knet.m_constructing
        /\ lastOp'.arg[1] \in DOMAIN knet.m_acc) =>
            (status' = "InvalidInput" /\ knet' = knet)]_vars

\* the neuron added under idx is in slot idx of the finalized network k
StoredParameters(k, idx, n) ==
    /\ idx \in DOMAIN k.m_a
    /\ k.m_a[idx] = n.a
    /\ k.m_b[idx] = n.b
    /\ k.m_c[idx] = n.c * VScale
    /\ k.m_d[idx] = n.d * VScale
    /\ k.m_sigma[idx] = n.sigma

StoredState(k, idx, n) ==
    /\ k.m_u[idx] = n.u * VScale
    /\ k.m_v[idx] = n.v * VScale

\* C17: a finalize that succeeds sets the neuron count to the number of
\* distinct indices added and stores every added neuron's a, b, c, d, sigma
\* and initial u, v in the slot of its index.
C17_FinalizeStores ==
    [][(knet.m_constructing /\ ~knet'.m_constructing /\ status' = "OK") =>
          /\ knet'.m_neuronCount = Cardinality(DOMAIN knet.m_acc)
          /\ \A idx \in DOMAIN knet.m_acc :
                /\ StoredParameters(knet', idx, knet.m_acc[idx])
                /\ lastOp'.op = "startSimulation" =>
                      StoredState(knet', idx, knet.m_acc[idx])]_vars

\* two neurons with different parameters have been finalized
C17_Witness ==
    /\ lastOp.op = "startSimulation"
    /\ status = "OK"
    /\ ~knet.m_constructing
    /\ knet.m_neuronCount = MaxNeuronIndex + 1
    /\ knet.m_a[0] # knet.m_a[1]
    /\ knet.m_v[0] # knet.m_v[1]

\* C18: once the first step has finalized the network, no call changes the
\* neurons or the connectivity the steps use.
C18_FrozenAfterFinalize ==
    [][knet.m_cycle >= 1 =>
          /\ knet'.m_cm.m_cm = knet.m_cm.m_cm
          /\ knet'.m_neuronCount = knet.m_neuronCount]_vars

\* C21: as long as no accumulation saturates, the current a step accumulates
\* at each target is the same for every order in which the due rows and the
\* terminals of a row are visited.
C21_OrderIndependent ==
    (lastOp.op = "step" /\ status = "OK" /\ NoSaturation) =>
        \A p \in Perms(Len(delivered.calls)) : \A rev \in BOOLEAN :
            DeliverInOrder([status |-> "OK", current |-> delivered.start, calls |-> <<>>],
                           p, rev, 1).current = delivered.current

\* a step delivered two different weights to one target from two rows
C21_Witness ==
    /\ lastOp.op = "step" /\ status = "OK" /\ NoSaturation
    /\ Len(delivered.calls) >= 2
    /\ \E v \in DOMAIN delivered.current : \E x, y \in Contributions(v) :
          /\ x[1] # y[1]
          /\ ContributionWeight(x) # ContributionWeight(y)

Abs(x) == IF x < 0 THEN -x ELSE x

\* C22: after any sequence of addSynapse calls the tracked maximum is the
\* largest |w| of the added synapses, negative weights included, and with the
\* fractional bits chosen from it every stored weight has magnitude at most
\* 2^26 in fixed point.
C22_FormatFromMaxWeight ==
    LET ws == UNION {{b[i].weight : i \in DOMAIN b} : b \in Range(gcm.mh_fcm)}
        f == setFractionalBits(gcm)
    IN ws # {} =>
          /\ gcm.m_maxAbsWeight = Max({Abs(w) : w \in ws})
          /\ f.defined =>
                \A w \in ws : /\ fx_toFix(w, f.fbits) <= 2 ^ 26
                              /\ fx_toFix(w, f.fbits) >= -(2 ^ 26)

ApiOps == Wrapped \cup {"nemo_new_network", "nemo_new_configuration", "nemo_new_simulation"}

\* C23: at the C API every failure becomes an error outcome: no exception
\* leaves a call; a call that returns a status returns NEMO_OK exactly when
\* the operation did not throw, and otherwise the exception's error number
\* (the unknown-error code for other exceptions) with the message recorded,
\* whatever the call before it returned.
C23_BoundaryTotal ==
    lastOp.op \in ApiOps =>
        LET o == lastOp.arg[1] IN
        /\ ~out.escaped
        /\ lastOp.op \in Wrapped =>
              /\ out.ret = NEMO_OK <=> o.kind = "return"
              /\ o.kind = "nemo" => out.ret = o.errno /\ out.g_lastError = o.what
              /\ o.kind = "std" => out.ret = NEMO_UNKNOWN_ERROR /\ out.g_lastError = o.what
              /\ o.kind = "other" => out.ret = NEMO_UNKNOWN_ERROR

\* C24: asking for the fractional bits before they are determined fails with
\* the logic-error code, from fractionalBits() as from the construction of a
\* matrix from a configuration without fractional bits, and the unset value
\* is never returned as a bit count.
C24_UnsetIsLogicError ==
    /\ (lastOp.op = "fractionalBits" /\ lastOp.arg = <<UnsetBits>>) =>
          out.kind = "nemo" /\ out.errno = NEMO_LOGIC_ERROR
    /\ (lastOp.op = "ConnectivityMatrix" /\ lastOp.arg = <<FALSE>>) =>
          out.kind = "nemo" /\ out.errno = NEMO_LOGIC_ERROR
    /\ (lastOp.op \in {"fractionalBits", "ConnectivityMatrix"} /\ out.kind = "return") =>
          out.value # UnsetBits

\* C25: only step advances simulated time: the elapsed simulation time is
\* the number of steps completed since the last reset of the timer, and no
\* other operation, a failed step included, changes it.
C25_TimeIsCompletedSteps == csim.m_timer = csim.completed

\* C26: selecting the CPU backend with thread count -1 takes the count from
\* the hardware concurrency (a build without threads has one thread to
\* choose); every call that succeeds leaves the backend CPU and a thread
\* count of at least 1; a build without multithreading refuses more than
\* one thread with InvalidInput.
C26_CpuBackend ==
    lastOp.op = "nemo_set_cpu_backend" =>
        LET threadCount == lastOp.arg[3] IN
        /\ (threadCount = -1 /\ conf.multithreaded) =>
              out.ret = NEMO_OK /\ out.m_cpuThreadCount = Max({1, out.hardware})
        /\ (threadCount = -1 /\ ~conf.multithreaded) =>
              out.ret = NEMO_OK /\ out.m_cpuThreadCount = 1
        /\ out.ret = NEMO_OK => out.m_backend = "cpu" /\ out.m_cpuThreadCount >= 1
        /\ (~conf.multithreaded /\ threadCount > 1) => out.ret = NEMO_INVALID_INPUT

\* the count came from the hardware: -1 was given on a machine of two threads
C26_Witness ==
    /\ lastOp.op = "nemo_set_cpu_backend"
    /\ lastOp.arg[3] = -1
    /\ conf.multithreaded
    /\ out.hardware = 2
    /\ out.m_cpuThreadCount = 2

\* the smallest dt in 0 .. 63 for which At(dt) is a bit of word, if there is one
ClosestIn(word, At(_)) ==
    IF \E dt \in AllOnes : At(dt) \in word
        THEN Min({dt \in AllOnes : At(dt) \in word})
        ELSE STDP_NO_APPLICATION

\* C27: for windows with pre_window + post_window <= 64, post_window = 0
\* included, closestPreFire is the least dt with bit post_window + dt set in
\* arrivals & pre_mask, closestPostFire the least dt with bit
\* post_window - 1 - dt set in arrivals & post_mask, and each is the
\* no-application value exactly when its masked word is zero.
C27_ClosestFiring ==
    LET pw == out.stdp.m_postFireWindow
        AbovePost(dt) == pw + dt
        BelowPost(dt) == pw - 1 - dt
    IN /\ lastOp.op = "closestPreFire" =>
            /\ out.result = ClosestIn(out.arrivals \cap out.stdp.m_preFireBits, AbovePost)
            /\ out.result = STDP_NO_APPLICATION <=>
                  out.arrivals \cap out.stdp.m_preFireBits = {}
       /\ lastOp.op = "closestPostFire" =>
            /\ out.result = ClosestIn(out.arrivals \cap out.stdp.m_postFireBits, BelowPost)
            /\ out.result = STDP_NO_APPLICATION <=>
                  out.arrivals \cap out.stdp.m_postFireBits = {}

\* two prefire arrivals in the window, the closer one not at the firing itself
C27_Witness ==
    /\ lastOp.op = "closestPreFire"
    /\ out.stdp.m_postFireWindow = SmallWindow
    /\ Cardinality(out.arrivals \cap out.stdp.m_preFireBits) >= 2
    /\ out.result > 0

\* the ranges [start, end) are pairwise disjoint and cover exactly 0 .. ncount - 1
Partition(jobs, ncount) ==
    LET range(t) == {n \in 0 .. MaxJobNeurons + 1 : jobs[t].start <= n /\ n < jobs[t].end}
    IN /\ \A t, u \in DOMAIN jobs : t # u => range(t) \cap range(u) = {}
       /\ UNION {range(t) : t \in DOMAIN jobs} = 0 .. ncount - 1

\* C28: for every neuron count and every thread count >= 1 the jobs of the
\* threads are pairwise disjoint and cover exactly [0, neuronCount), so an
\* update runs every neuron exactly once, also when the count is not a
\* multiple of the thread count or is smaller than it.
C28_JobsPartition ==
    /\ Partition(out.m_job, out.m_neuronCount)
    /\ Partition(out.m_workers, out.m_neuronCount)
    /\ lastOp.op \in {"Network::update", "Simulation::update"} =>
          \A n \in DOMAIN out.updates : out.updates[n] = 1

\* C29: in every build and thread configuration one update runs the neuron
\* update for every neuron, which leaves the neuron's input current zero and
\* the neuron fired if the stimulus forces it, and attempts the STDP
\* accumulation, which is refused as unsupported, exactly when STDP is enabled.
C29_UpdateRunsAll ==
    (lastOp.op = "step" /\ status \in {"OK", "Unsupported"}) =>
        /\ \A l \in DOMAIN sim.m_current : sim.m_valid[l] => sim.m_current[l] = 0
        /\ \A g \in Range(lastOp.arg) : sim.m_fired[localIdx(net, g)]
        /\ status = "Unsupported" <=> conf.stdp

\* one integration of v and u over a quarter of a millisecond
Integrate(st, a, b, current) ==
    LET v == st.v + ((st.v * st.v) \div (25 * VScale) + 5 * st.v
                     + 140 * VScale - st.u + current) \div 4
    IN [v |-> v, u |-> st.u + (a * ((b * v) \div 100 - st.u)) \div 400]

\* v and u after the first of the integrations k + 1 .. SUBSTEPS that takes
\* v to 30 or above, or after the last one, with the number of integrations
RECURSIVE Integrated(_, _, _, _, _)
Integrated(st, a, b, current, k) ==
    LET next == Integrate(st, a, b, current)
        crossed == next.v >= 30 * VScale
    IN IF crossed \/ k + 1 = SUBSTEPS
          THEN [v |-> next.v, u |-> next.u, count |-> k + 1, crossed |-> crossed]
          ELSE Integrated(next, a, b, current, k + 1)

\* the input current of local neuron l in the step from s, after delivery d
InputCurrent(s, d, l) ==
    (fx_toFloat(d.current[l], s.m_cm.m_fractionalBits) * VScale) \div (2 ^ WeightFracBits)
      + (IF s.m_sigma[l] # 0 THEN thalamicInput(s, l).value ELSE 0)

\* the update of the step ran the neurons
UpdateRan(s) == ~conf.multithreaded \/ Len(s.m_workers) > 1

\* C30: in one cycle a neuron is integrated at most four times, in order,
\* and not again once an integration has set its fired flag: v and u before
\* the reset are those after the first integration that takes v to 30 or
\* above, or after the fourth; a fired or force-fired neuron then has v set
\* to c and u increased by d once, any other keeps the integrated v and u.
C30_SubSteps ==
    [][(lastOp'.op = "step" /\ status' = "OK" /\ UpdateRan(sim)) =>
        \A l \in DOMAIN sim.m_v : sim.m_valid[l] =>
            LET st0 == [v |-> sim.m_v[l], u |-> sim.m_u[l]]
                cur == InputCurrent(sim, delivered', l)
                end == Integrated(st0, sim.m_a[l], sim.m_b[l], cur, 0)
                forced == \E i \in DOMAIN lastOp'.arg : localIdx(net, lastOp'.arg[i]) = l
                fired == end.crossed \/ forced
            IN /\ end.count <= 4
               /\ sim'.m_fired[l] = fired
               /\ sim'.m_v[l] = IF fired THEN sim.m_c[l] ELSE end.v
               /\ sim'.m_u[l] = IF fired THEN end.u + sim.m_d[l] ELSE end.u]_vars

\* a neuron that was not forced fired in a step that ran the update
C30_Witness ==
    /\ lastOp.op = "step" /\ status = "OK" /\ UpdateRan(sim)
    /\ \E l \in DOMAIN sim.m_fired :
          /\ sim.m_fired[l]
          /\ \A i \in DOMAIN lastOp.arg : localIdx(net, lastOp.arg[i]) # l

\* C31: the current buffer is zeroed after it is read: after every step that
\* returns, the current of every index slot is 0, also of a slot that holds
\* no neuron but is the target of a synapse, so nothing carries over into
\* the next step.
C31_CurrentZeroed ==
    (lastOp.op = "step" /\ status = "OK") =>
        \A l \in DOMAIN sim.m_current : sim.m_current[l] = 0

---------------------------------------------------------------------------
(* Row lookup after finalize: sparse rows, no synapses, no neurons *)

LookupScenarios ==
    { \* delays 1 and MAX_DELAY from one source: every slot between is empty
      [net |-> Network({1, 2}, 0, << <<1, 2, 1, Strong, 0>>, <<1, 2, MAX_DELAY, Weak, 0>> >>),
       fbits |-> 0],
      \* rows at delays 1 and 3 of the last neuron of three, none at delay 2
      [net |-> Network({0, 1, 2}, 0, << <<2, 0, 3, Strong, 0>>, <<2, 1, 1, Strong, 0>>,
                                        <<1, 2, 2, Weak, 0>> >>),
       fbits |-> 0],
      \* neurons without synapses
      [net |-> Network({0, 1}, 0, <<>>), fbits |-> 0],
      \* no neurons
      [net |-> Network({}, 0, <<>>), fbits |-> 0] }

InitLookup ==
    \E sc \in LookupScenarios : \E sw \in BOOLEAN :
        InitOf(sc, [multithreaded |-> FALSE, threads |-> 1, stdp |-> FALSE,
                    fbits |-> sc.fbits, shiftWraps |-> sw, ndebug |-> FALSE])

SpecLookup == InitLookup /\ [][Next]_vars

\* the slots deliverSpikes may look up: every local source with every delay
\* up to the largest
LookupRange(s) == (0 .. s.m_neuronCount - 1) \X (1 .. s.m_cm.m_maxDelay)

\* C32: after finalize the row lookup is total and right on the range spike
\* delivery uses: for every source and every delay in [1, maxDelay] the
\* address source * maxDelay + delay - 1 is an in-range slot of its own, the
\* row found there is the row set for (source, delay), or empty if none was
\* set, and no lookup made by deliverSpikes is out of range.
C32_RowLookupTotal ==
    /\ constructionStatus(net, conf) = "OK" =>
          /\ \A k \in LookupRange(sim) :
                /\ getRowInRange(sim.m_cm, k[1], k[2])
                /\ getRow(sim.m_cm, k[1], k[2]) =
                      IF k \in DOMAIN sim.m_cm.m_acc THEN sim.m_cm.m_acc[k] ELSE <<>>
          /\ Cardinality({addressOf(sim.m_cm, k[1], k[2]) : k \in LookupRange(sim)}) =
                Cardinality(LookupRange(sim))
    /\ lastOp.op = "step" => status # "OutOfRange"

\* a step has looked up and delivered the last row of a source whose
\* delay slots are partly empty
C32_Witness ==
    /\ lastOp.op = "step" /\ status = "OK"
    /\ \E i \in DOMAIN delivered.calls :
          /\ delivered.calls[i][2] = sim.m_cm.m_maxDelay
          /\ delivered.calls[i][1] > 0
          /\ <<delivered.calls[i][1], 2>> \notin DOMAIN sim.m_cm.m_acc
          /\ getRow(sim.m_cm, delivered.calls[i][1], delivered.calls[i][2]) # <<>>

---------------------------------------------------------------------------
(* The firing buffer under interleavings of step and readFiring *)

\* the networks whose delays all expire within a few steps
FiringScenarios ==
    {sc \in Scenarios : \A i \in DOMAIN sc.net.synapses : sc.net.synapses[i][3] < MAX_DELAY}

InitFiring ==
    \E sc \in FiringScenarios : \E c \in Configurations(sc.fbits) :
        ~c.stdp /\ InitOf(sc, c)

\* readFiring, called after any number of steps
ReadFiringLater ==
    /\ steps > CallWindow
    /\ LET r == readFiring(sim)
       IN /\ sim' = r.sim
          /\ out' = [ret |-> r.ret, cycles |-> r.sim.m_firedCycleExt,
                     nidx |-> r.sim.m_firedNeuronExt]
    /\ status' = "OK"
    /\ lastOp' = [op |-> "readFiring", arg |-> <<>>]
    /\ readMark' = steps
    /\ UNCHANGED <<rtdata, csim, knet, conf, net, sim2, steps, firedLog, delivered, bcm, gcm>>

NextFiring ==
    \/ \E fstim \in Stimuli(net), sched \in Schedules(sim) : Step(fstim, sched)
    \/ ReadFiring
    \/ ReadFiringLater

SpecFiring == InitFiring /\ [][NextFiring]_vars

\* the firings of the steps after the from-th up to the to-th, each with the
\* number of steps between the from-th and its own
FiringsBetween(from, to) ==
    {<<k - 1 - from, globalIdx(net, l)>> : <<k, l>> \in
        {kl \in (from + 1 .. to) \X (0 .. sim.m_neuronCount - 1) : kl[2] \in firedLog[kl[1]]}}

NonDecreasing(q) == \A i, j \in DOMAIN q : i < j => q[i] <= q[j]

\* what a readFiring returned, as pairs of cycle tag and neuron
Returned(o) == {<<o.cycles[i], o.nidx[i]>> : i \in DOMAIN o.cycles}

\* C33: under any interleaving of step and readFiring every firing of a
\* neuron in a step is returned by the first readFiring after that step and
\* by no other, once, in step order, tagged with the number of steps between
\* the previous readFiring and its step; readFiring returns the number of
\* steps since the previous readFiring, and every tag is smaller than it.
C33_FiringReturnedOnce ==
    [][lastOp'.op = "readFiring" =>
          /\ Len(out'.cycles) = Len(out'.nidx)
          /\ Returned(out') = FiringsBetween(readMark, steps)
          /\ Len(out'.cycles) = Cardinality(FiringsBetween(readMark, steps))
          /\ NonDecreasing(out'.cycles)
          /\ out'.ret = steps - readMark
          /\ \A i \in DOMAIN out'.cycles : out'.cycles[i] < out'.ret]_vars

\* a readFiring that follows an earlier one at a later step and returns
\* firings of two different steps
C33_Witness ==
    /\ lastOp.op = "readFiring"
    /\ steps - out.ret > 0
    /\ out.ret >= 2
    /\ \E i, j \in DOMAIN out.cycles : out.cycles[i] < out.cycles[j]

---------------------------------------------------------------------------
(* The firing buffer under step, readFiring, flushFiringBuffer, resetTimer *)

\* resetTimer
ResetTimer ==
    /\ sim' = resetTimer(sim)
    /\ status' = "OK"
    /\ lastOp' = [op |-> "resetTimer", arg |-> <<>>]
    /\ UNCHANGED <<rtdata, readMark, csim, knet, conf, net, sim2, steps, firedLog, delivered, bcm, gcm, out>>

NextTimer ==
    \/ \E fstim \in Stimuli(net), sched \in Schedules(sim) : Step(fstim, sched)
    \/ ReadFiring
    \/ ReadFiringLater
    \/ FlushFiringBuffer
    \/ ResetTimer

SpecTimer == InitFiring /\ [][NextTimer]_vars

\* an unsigned word is held as the integer with the same 32 bits: a
\* negative n stands for the unsigned value 2^32 + n, which is what an
\* unsigned difference that underflows leaves
StepCount(x) == 0 <= x /\ x <= steps

\* C34: after any sequence of step, readFiring, flushFiringBuffer and
\* resetTimer every cycle tag recorded by setFiring and every value returned
\* by readFiring is a step count between 0 and the number of steps performed:
\* the unsigned difference of the elapsed time and the last-read mark never
\* underflows.
C34_TagsInRange ==
    /\ \A i \in DOMAIN sim.m_firedCycle : StepCount(sim.m_firedCycle[i])
    /\ lastOp.op = "readFiring" =>
          /\ StepCount(out.ret)
          /\ \A i \in DOMAIN out.cycles : StepCount(out.cycles[i])

\* C35: spike delivery without the delay-bits mask is delivery with it: in
\* every reachable state scanning all set history bits below maxDelay gives
\* the same current vector as scanning only the bits of delays at which the
\* source has synapses, since the other slots hold empty rows.
C35_MaskIsRedundant ==
    /\ deliverSpikes(sim).status = deliverSpikesMasked(sim).status
    /\ deliverSpikes(sim).current = deliverSpikesMasked(sim).current

\* the last step looked up the slot of a delay at which the source has no
\* synapses, and delivered a row with synapses as well
C35_Witness ==
    /\ lastOp.op = "step" /\ status = "OK"
    /\ \E i \in DOMAIN delivered.calls :
          (delivered.calls[i][2] - 1) \notin delayBits(sim.m_cm, delivered.calls[i][1])
    /\ delivered.current # delivered.start

---------------------------------------------------------------------------
(* Index slots between the neurons of a network that hold no neuron *)

HoleScenarios ==
    { \* slot 1 is empty and the target of a synapse
      [net |-> Network({0, 2}, 0, << <<0, 1, 1, Strong, 0>>, <<0, 2, 1, Weak, 0>> >>),
       fbits |-> 0],
      \* slot 1 is empty and the source of a synapse
      [net |-> Network({0, 2}, 0, << <<0, 2, 1, Strong, 0>>, <<1, 2, 1, Strong, 0>>,
                                     <<2, 0, 2, Strong, 0>> >>),
       fbits |-> 0] }

\* the index slots of the network that hold no neuron
Holes(n) == (minNeuronIndex(n) .. maxNeuronIndex(n)) \ n.m_neurons

\* firing stimuli that name an empty slot
HoleStimuli(n) ==
    {<<>>, <<minNeuronIndex(n)>>} \cup
    UNION {{<<h>>, <<minNeuronIndex(n), h>>} : h \in Holes(n)}

InitHole ==
    \E sc \in HoleScenarios : \E c \in Configurations(sc.fbits) :
        ~c.stdp /\ InitOf(sc, c)

NextHole ==
    \/ \E fstim \in HoleStimuli(net), sched \in Schedules(sim) : Step(fstim, sched)
    \/ ReadFiring
    \/ ReadFiringLater

SpecHole == InitHole /\ [][NextHole]_vars

\* C36: an index slot that holds no added neuron never fires: in every
\* reachable state its fired flag and its firing history are 0, it is not in
\* the firing output and it causes no spike delivery, even when a firing
\* stimulus names it.
C36_HoleNeverFires ==
    \A h \in Holes(net) :
        LET l == localIdx(net, h)
        IN /\ ~sim.m_fired[l]
           /\ sim.m_recentFiring[l] = {}
           /\ \A i \in DOMAIN sim.m_firedNeuron : sim.m_firedNeuron[i] # h
           /\ \A i \in DOMAIN sim.m_firedNeuronExt : sim.m_firedNeuronExt[i] # h
           /\ lastOp.op = "readFiring" => \A i \in DOMAIN out.nidx : out.nidx[i] # h
           /\ \A i \in DOMAIN delivered.calls : delivered.calls[i][1] # l

\* a step whose firing stimulus names an empty slot and a neuron has run
\* the update and the neuron fired
C36_Witness ==
    /\ lastOp.op = "step" /\ status = "OK"
    /\ UpdateRan(sim)
    /\ \E i \in DOMAIN lastOp.arg : lastOp.arg[i] \in Holes(net)
    /\ \E l \in DOMAIN sim.m_fired : sim.m_fired[l]

---------------------------------------------------------------------------
(* Starting the simulation: the kernel network, or the CUDA runtime data *)

\* RuntimeData::startSimulation
RtStartSimulation ==
    /\ rtdata' = rtStartSimulation(rtdata)
    /\ status' = "OK"
    /\ lastOp' = [op |-> "rtStartSimulation", arg |-> <<>>]
    /\ UNCHANGED <<readMark, csim, knet, conf, net, sim, sim2, steps, firedLog, delivered,
                   bcm, gcm, out>>

\* RuntimeData::stepSimulation
RtStepSimulation(delta) ==
    /\ rtdata.m_cycle < MaxKernelSteps
    /\ delta # 0 => conf.stdp
    /\ rtdata' = rtStepSimulation(rtdata, delta)
    /\ status' = "OK"
    /\ lastOp' = [op |-> "rtStepSimulation", arg |-> <<delta>>]
    /\ UNCHANGED <<readMark, csim, knet, conf, net, sim, sim2, steps, firedLog, delivered,
                   bcm, gcm, out>>

\* RuntimeData::applyStdp
RtApplyStdp(reward) ==
    /\ rtdata' = rtApplyStdp(rtdata, StdpFn, reward)
    /\ status' = "OK"
    /\ lastOp' = [op |-> "rtApplyStdp", arg |-> <<reward>>]
    /\ UNCHANGED <<readMark, csim, knet, conf, net, sim, sim2, steps, firedLog, delivered,
                   bcm, gcm, out>>

\* one process runs the CPU kernel network or the CUDA runtime data
InitStart ==
    \E sc \in {x \in Scenarios : x.net.m_neurons = {0, 1}} :
        \E nd \in BOOLEAN, st \in BOOLEAN, be \in {"cpu", "cuda"} :
            /\ be = "cpu" => ~st
            /\ be = "cuda" => ~nd
            /\ InitOf(sc, [multithreaded |-> FALSE, threads |-> 1, stdp |-> st,
                           fbits |-> sc.fbits, shiftWraps |-> FALSE, ndebug |-> nd,
                           backend |-> be])

NextStart ==
    \/ /\ conf.backend = "cpu"
       /\ \/ \E idx \in 0 .. MaxNeuronIndex : \E neuron \in KernelNeurons(idx) :
                KernelAddNeuron(idx, neuron)
          \/ \E delay \in {0, 1, 2}, ss \in KernelRows : KernelAddSynapses(0, delay, ss)
          \/ \E endFirst \in EndFirst : KernelStartSimulation(endFirst)
          \/ \E fstim \in {{}, {0}}, endFirst \in EndFirst, ub \in {"OK", "Segfault"} :
                KernelStep(fstim, endFirst, ub)
    \/ /\ conf.backend = "cuda"
       /\ \/ RtStartSimulation
          \/ \E delta \in {0, Unit, -Unit} : RtStepSimulation(delta)
          \/ \E reward \in {0, 1, -1} : RtApplyStdp(reward)

SpecStart == InitStart /\ [][NextStart]_vars

\* what a repeated startSimulation must leave alone: the neuron parameters
\* and state, the firing history, the currents and the cycle counter
KernelFrame(k) ==
    <<k.m_neuronCount, k.m_a, k.m_b, k.m_c, k.m_d, k.m_sigma, k.m_u, k.m_v,
      k.m_pfired, k.m_recentFiring, k.m_current, k.m_cycle>>

\* C37: starting the simulation is idempotent. The body of finalize, and the
\* move of the data to the device, runs once, at the first start: after it
\* the network is no longer under construction and the data has moved once,
\* and a repeated startSimulation (every later step, deliverSpikes and
\* update calls it) leaves the neuron parameters, the neuron state, the
\* firing history, the currents and the cycle counter as they are; applyStdp
\* before the first step changes nothing.
C37_StartIdempotent ==
    /\ (conf.backend = "cpu" /\ KernelAlive) =>
          \A e \in EndFirst :
             LET s1 == kernelStartSimulation(knet, e)
             IN /\ ~knet.m_constructing =>
                      /\ s1.status = "OK"
                      /\ KernelFrame(s1.net) = KernelFrame(knet)
                /\ s1.status # "Abort" =>
                      /\ ~s1.net.m_constructing
                      /\ \A e2 \in EndFirst :
                            KernelFrame(kernelStartSimulation(s1.net, e2).net) =
                               KernelFrame(s1.net)
    /\ conf.backend = "cuda" =>
          LET s1 == rtStartSimulation(rtdata)
          IN /\ ~s1.m_deviceDirty
             /\ s1.moved = 1
             /\ rtStartSimulation(s1) = s1
             /\ ~rtdata.m_deviceDirty => s1 = rtdata
             /\ rtdata.m_deviceDirty =>
                   \A reward \in {0, 1, -1} : rtApplyStdp(rtdata, StdpFn, reward) = rtdata

\* the second step of a kernel network has run, so startSimulation was
\* repeated on a network whose neurons have a firing history
C37_Witness ==
    /\ conf.backend = "cpu"
    /\ lastOp.op = "step" /\ status = "OK"
    /\ knet.m_cycle = 2
    /\ \E i \in DOMAIN knet.m_recentFiring : knet.m_recentFiring[i] # {}

=============================================================================
